---- MODULE Spec2Model ----
(***************************************************************************)
(* Model of the miniclawd agent runtime: the agentic loop of               *)
(* internal/agent/engine.go (ProcessWithEvents), the tool registry         *)
(* dispatch of internal/tools/registry.go, the session store adapter of    *)
(* internal/agent/memory_context.go and the message helpers of             *)
(* internal/agent/history.go and internal/llm (SanitizeMessages).          *)
(*                                                                         *)
(* Strings are sequences of tokens: <<>> is the empty string, " " is a     *)
(* whitespace character, "<think>" and "</think>" are the reasoning tags,  *)
(* every other token is visible text.                                      *)
(***************************************************************************)
EXTENDS Integers, Sequences, FiniteSets, TLC

\* ---------------------------------------------------------------- bounds
\* cfg.MaxToolIterations is drawn from 1..MaxIterBound.
MaxIterBound == 2

\* cfg.MaxSessionMessages and cfg.CompactKeepRecent of the modelled
\* configuration (small, so that compaction happens within the bounds).
MaxSessionMessages == 3

CompactKeepRecent == 2

\* cfg.MaxHistoryMessages of the modelled configuration.
MaxHistoryMessages == 3

\* The longest message list handed to SanitizeMessages on its own.
MaxSanitizeLen == 3

\* The longest message list and the largest keepRecent handed to
\* CompactMessages on its own.
MaxCompactLen == 3

MaxKeepRecent == 3

\* The most rows of the memories table and the largest token budget handed
\* to BuildDBMemoryContext on its own.
MaxMemories == 3

MaxBudget == 3

\* The longest list of control chats of a ToolAuthContext.
MaxControlChats == 2

\* handlers of one caller inside the loop for one chat or task
MaxInProgress == 2

\* Successive turns of one chat: the user messages stored, the seconds on
\* the clock and the turns begun.
MaxStored == 5

MaxNow == 3

MaxTurns == 3

\* The goroutines writing to the store at once.
MaxWriters == 2

\* The largest cfg.MaxToolIterations of a streamed web turn.
MaxStreamIter == 1

\* The most members of a JSON object supplied as tool input.
MaxMembers == 2

\* The most web requests being handled at the same time.
MaxWebRequests == 3

\* The number of scheduled tasks, and the most executeTask goroutines
\* started for one task.
MaxTasks == 2

MaxStarts == 2

\* The number of concurrent callers of ResolveOrCreateChatID.
MaxResolvers == 3

\* The longest final message list of a turn whose session write is followed.
MaxFinalLen == 2

\* ------------------------------------------------------- string helpers
NL == "\n"

RECURSIVE JoinNL(_)
\* strings.Join(parts, "\n")
JoinNL(parts) ==
    IF parts = <<>> THEN <<>>
    ELSE IF Len(parts) = 1 THEN parts[1]
    ELSE parts[1] \o <<NL>> \o JoinNL(Tail(parts))

IsSpace(t) == t \in {" ", NL}

RECURSIVE TrimLeft(_)
TrimLeft(s) ==
    IF s = <<>> THEN <<>>
    ELSE IF IsSpace(s[1]) THEN TrimLeft(Tail(s))
    ELSE s

RECURSIVE TrimRight(_)
TrimRight(s) ==
    IF s = <<>> THEN <<>>
    ELSE IF IsSpace(s[Len(s)]) THEN TrimRight(SubSeq(s, 1, Len(s) - 1))
    ELSE s

\* strings.TrimSpace
TrimSpace(s) == TrimRight(TrimLeft(s))

\* strings.Index of a tag in s, searching from position from; 0 when absent.
IndexFrom(s, tag, from) ==
    IF \E i \in from..Len(s) : s[i] = tag
    THEN CHOOSE i \in from..Len(s) :
            s[i] = tag /\ \A j \in from..(i - 1) : s[j] /= tag
    ELSE 0

RECURSIVE StripThinkLoop(_)
StripThinkLoop(text) ==
    LET start == IndexFrom(text, "<think>", 1) IN
    IF start = 0 THEN text
    ELSE LET end == IndexFrom(text, "</think>", start) IN
         IF end = 0 THEN SubSeq(text, 1, start - 1)
         ELSE StripThinkLoop(SubSeq(text, 1, start - 1)
                             \o SubSeq(text, end + 1, Len(text)))

\* StripThinking removes <think>...</think> spans, then trims.
StripThinking(text) == TrimSpace(StripThinkLoop(text))

\* --------------------------------------------------------- content model
\* core.MessageContent: Blocks == nil is isBlocks = FALSE.  In Go a slice
\* built by append from a nil slice is nil exactly when nothing was appended.
TextContent(text) == [isBlocks |-> FALSE, text |-> text, blocks |-> <<>>]

BlocksContent(blocks) ==
    [isBlocks |-> blocks /= <<>>, text |-> <<>>, blocks |-> blocks]

TextBlock(text) == [type |-> "text", text |-> text]

ImageBlock == [type |-> "image"]

ToolUseBlock(id, name) == [type |-> "tool_use", id |-> id, name |-> name]

ToolResultBlock(toolUseID, content, isError) ==
    [type |-> "tool_result", toolUseID |-> toolUseID,
     content |-> content, isError |-> isError]

Msg(role, content) == [role |-> role, content |-> content]

RECURSIVE TextParts(_)
\* the texts of the non-empty text blocks, in order
TextParts(blocks) ==
    IF blocks = <<>> THEN <<>>
    ELSE IF blocks[1].type = "text" /\ blocks[1].text /= <<>>
         THEN <<blocks[1].text>> \o TextParts(Tail(blocks))
         ELSE TextParts(Tail(blocks))

\* agent.MessageToText
MessageToText(msg) ==
    IF ~msg.content.isBlocks THEN msg.content.text
    ELSE JoinNL(TextParts(msg.content.blocks))

\* ------------------------------------------ the sanitizer (package llm)
\* llm.messageToText
messageToText(msg) ==
    IF ~msg.content.isBlocks THEN msg.content.text
    ELSE JoinNL(TextParts(msg.content.blocks))

\* the ids of the tool_use blocks of the assistant messages
toolUseIDs(messages) ==
    UNION {{messages[i].content.blocks[j].id :
               j \in {k \in 1..Len(messages[i].content.blocks) :
                         messages[i].content.blocks[k].type = "tool_use"}} :
           i \in {k \in 1..Len(messages) :
                     /\ messages[k].role = "assistant"
                     /\ messages[k].content.isBlocks}}

\* a variant that filters nothing
kept_KeepsAll(blocks, ids) == blocks

RECURSIVE kept(_, _)
\* the blocks of a user message without the orphan tool_result blocks
kept(blocks, ids) ==
    IF blocks = <<>> THEN <<>>
    ELSE IF blocks[1].type = "tool_result" /\ blocks[1].toolUseID \notin ids
         THEN kept(Tail(blocks), ids)
         ELSE <<blocks[1]>> \o kept(Tail(blocks), ids)

RECURSIVE cleaned(_, _)
\* the first pass: user block messages lose their orphans, and are dropped
\* when nothing is left
cleaned(messages, ids) ==
    IF messages = <<>> THEN <<>>
    ELSE LET msg == messages[1] IN
         IF msg.role = "user" /\ msg.content.isBlocks
         THEN LET k == kept(msg.content.blocks, ids) IN
              IF k = <<>> THEN cleaned(Tail(messages), ids)
              ELSE <<Msg(msg.role, BlocksContent(k))>> \o cleaned(Tail(messages), ids)
         ELSE <<msg>> \o cleaned(Tail(messages), ids)

RECURSIVE mergedFrom(_, _)
\* the second pass: a message of the same role as the last one is merged
\* into it as text (when both texts are empty the last one stays as it is)
mergedFrom(acc, rest) ==
    IF rest = <<>> THEN acc
    ELSE LET msg == rest[1] IN
         IF acc /= <<>> /\ acc[Len(acc)].role = msg.role
         THEN LET lastText == messageToText(acc[Len(acc)])
                  newText == messageToText(msg)
                  combined == lastText
                              \o (IF lastText /= <<>> /\ newText /= <<>>
                                  THEN <<NL>> ELSE <<>>)
                              \o newText
              IN IF lastText /= <<>> \/ newText /= <<>>
                 THEN mergedFrom([acc EXCEPT ![Len(acc)].content = TextContent(combined)],
                             Tail(rest))
                 ELSE mergedFrom(acc, Tail(rest))
         ELSE mergedFrom(Append(acc, msg), Tail(rest))

\* llm.SanitizeMessages
SanitizeMessages(messages) ==
    IF messages = <<>> THEN messages
    ELSE mergedFrom(<<>>, cleaned(messages, toolUseIDs(messages)))

\* ------------------------------------------------- history (history.go)
\* storage.StoredMessage: sender and content are strings, ts the timestamp.
Stored(isFromBot, sender, content, ts) ==
    [isFromBot |-> isFromBot, sender |-> sender, content |-> content, ts |-> ts]

RECURSIVE mergeLoop(_, _)
mergeLoop(merged, rest) ==
    IF rest = <<>> THEN merged
    ELSE LET msg == rest[1] IN
         IF merged /= <<>> /\ merged[Len(merged)].role = msg.role
         THEN LET n == Len(merged)
                  prevText == merged[n].content.text
                  newText == msg.content.text
                  lastContent ==
                      IF prevText /= <<>> /\ newText /= <<>>
                      THEN TextContent(prevText \o <<NL>> \o newText)
                      ELSE IF newText /= <<>> THEN TextContent(newText)
                      ELSE merged[n].content
              IN mergeLoop([merged EXCEPT ![n].content = lastContent], Tail(rest))
         ELSE mergeLoop(Append(merged, msg), Tail(rest))

\* mergeConsecutiveMessages merges adjacent same-role messages.
mergeConsecutiveMessages(messages) ==
    IF Len(messages) <= 1 THEN messages ELSE mergeLoop(<<>>, messages)

RECURSIVE convertHistory(_)
convertHistory(history) ==
    IF history = <<>> THEN <<>>
    ELSE LET msg == history[1]
             role == IF msg.isFromBot THEN "assistant" ELSE "user"
             content ==
                 IF ~msg.isFromBot /\ msg.sender /= <<>>
                 THEN <<"[">> \o msg.sender \o <<"]: ">> \o msg.content
                 ELSE msg.content
         IN <<Msg(role, TextContent(content))>> \o convertHistory(Tail(history))

\* HistoryToMessages converts StoredMessages to LLM Message format.
HistoryToMessages(history) == mergeConsecutiveMessages(convertHistory(history))

RECURSIVE SelectStored(_, _, _)
\* rows of db with ts > since, user rows only when usersOnly (ORDER BY ts ASC;
\* db is kept in timestamp order)
SelectStored(db, since, usersOnly) ==
    IF db = <<>> THEN <<>>
    ELSE IF db[1].ts > since /\ (~usersOnly \/ ~db[1].isFromBot)
         THEN <<db[1]>> \o SelectStored(Tail(db), since, usersOnly)
         ELSE SelectStored(Tail(db), since, usersOnly)

\* LIMIT n of an ascending query
Limit(rows, n) == IF Len(rows) <= n THEN rows ELSE SubSeq(rows, 1, n)

\* Database.GetRecentMessages: the last limit rows, chronological.
GetRecentMessages(db, limit) ==
    IF Len(db) <= limit THEN db ELSE SubSeq(db, Len(db) - limit + 1, Len(db))

\* Database.GetNewUserMessagesSince
GetNewUserMessagesSince(db, since, limit) ==
    Limit(SelectStored(db, since, TRUE), limit)

\* Database.GetMessagesSinceLastBotResponse
GetMessagesSinceLastBotResponse(db, max, fallback) ==
    LET bots == {i \in 1..Len(db) : db[i].isFromBot} IN
    IF bots = {} THEN GetRecentMessages(db, fallback)
    ELSE LET lastBot == CHOOSE i \in bots : \A j \in bots : db[j].ts <= db[i].ts
         IN Limit(SelectStored(db, db[lastBot].ts, FALSE), max)

\* LoadMessagesFromDB
LoadMessagesFromDB(db, chatType, maxHistory) ==
    HistoryToMessages(
        IF chatType = "group"
        THEN GetMessagesSinceLastBotResponse(db, maxHistory, maxHistory)
        ELSE GetRecentMessages(db, maxHistory))

\* ------------------------------------- session store (memory_context.go)
RECURSIVE NonImage(_)

\* mutant of NonImage: every block is kept
NonImage_KeepsAll(blocks) == blocks

\* the filter loop of StripImagesForSession
NonImage(blocks) ==
    IF blocks = <<>> THEN <<>>
    ELSE IF blocks[1].type /= "image" THEN <<blocks[1]>> \o NonImage(Tail(blocks))
    ELSE NonImage(Tail(blocks))

\* StripImagesForSession removes image blocks before the session is stored.
StripImagesForSession(messages) ==
    [i \in 1..Len(messages) |->
        IF ~messages[i].content.isBlocks THEN messages[i]
        ELSE LET filtered == NonImage(messages[i].content.blocks) IN
             IF filtered = <<>>
             THEN Msg(messages[i].role, TextContent(<<"[image]">>))
             ELSE Msg(messages[i].role, BlocksContent(filtered))]

NoSession == [found |-> FALSE, messages |-> <<>>, updatedAt |-> 0]

\* a variant that stores the list with its image blocks
SaveSession_KeepsImages(messages, nowTs) ==
    [found |-> TRUE, messages |-> messages, updatedAt |-> nowTs]

\* agent.SaveSession + Database.SaveSession: INSERT OR REPLACE of the row.
SaveSession(messages, nowTs) ==
    [found |-> TRUE, messages |-> StripImagesForSession(messages),
     updatedAt |-> nowTs]

\* ------------------------------- the memory ranker (memory_context.go)
\* A string of the ranker is the sequence of its characters.
\* strings.ToLower
ToLower(str) ==
    [i \in 1..Len(str) |-> IF str[i] = "C" THEN "c"
                           ELSE IF str[i] = "D" THEN "d"
                           ELSE str[i]]

\* strings.Contains
Contains(str, substr) ==
    \E i \in 0..(Len(str) - Len(substr)) : SubSeq(str, i + 1, i + Len(substr)) = substr

RECURSIVE FieldsFrom(_, _)
\* strings.Fields: word is the field being read
FieldsFrom(str, word) ==
    IF str = <<>> THEN (IF word = <<>> THEN <<>> ELSE <<word>>)
    ELSE IF IsSpace(str[1])
         THEN (IF word = <<>> THEN <<>> ELSE <<word>>) \o FieldsFrom(Tail(str), <<>>)
         ELSE FieldsFrom(Tail(str), Append(word, str[1]))

Fields(str) == FieldsFrom(str, <<>>)

\* storage.Memory: chatID = 0 stands for a NULL chat_id (a global memory);
\* confidence is in hundredths.
Memory(id, chatID, content, category, confidence, isArchived) ==
    [id |-> id, chatID |-> chatID, content |-> content, category |-> category,
     confidence |-> confidence, isArchived |-> isArchived]

\* the WHERE clause of GetMemoriesForContext: confidence >= 0.45
MinConfidence == 45

RECURSIVE VisibleMemories(_, _)
VisibleMemories(rows, chatID) ==
    IF rows = <<>> THEN <<>>
    ELSE IF /\ ~rows[1].isArchived
            /\ rows[1].confidence >= MinConfidence
            /\ rows[1].chatID \in {chatID, 0}
         THEN <<rows[1]>> \o VisibleMemories(Tail(rows), chatID)
         ELSE VisibleMemories(Tail(rows), chatID)

\* Database.GetMemoriesForContext; rows is the memories table in the order
\* of ORDER BY updated_at DESC
GetMemoriesForContext(rows, chatID, limit) ==
    LET visible == VisibleMemories(rows, chatID)
    IN SubSeq(visible, 1, IF Len(visible) < limit THEN Len(visible) ELSE limit)

\* the candidate limit BuildDBMemoryContext asks for
CandidateLimit == 100

\* the score of a memory, in hundredths: confidence, 0.3 for every query
\* word of three characters or more found in the content, 0.2 for a
\* confidence of 0.8 or more
Score(mem, queryWords) ==
    LET contentLower == ToLower(mem.content)
        hits == {k \in 1..Len(queryWords) :
                    /\ Len(queryWords[k]) >= 3
                    /\ Contains(contentLower, queryWords[k])}
    IN mem.confidence + 30 * Cardinality(hits)
       + (IF mem.confidence >= 80 THEN 20 ELSE 0)

\* the scored candidates, in fetched order
Scored(memories, query) ==
    [i \in 1..Len(memories) |->
        [mem |-> memories[i], score |-> Score(memories[i], Fields(ToLower(query)))]]

Swap(seq, i, j) == [seq EXCEPT ![i] = seq[j], ![j] = seq[i]]

RECURSIVE sortLoop_Ascending(_, _, _)
\* a variant that ranks the lowest score first
sortLoop_Ascending(candidates, i, j) ==
    IF i > Len(candidates) - 1 THEN candidates
    ELSE IF j > Len(candidates) THEN sortLoop_Ascending(candidates, i + 1, i + 2)
    ELSE IF candidates[j].score < candidates[i].score
         THEN sortLoop_Ascending(Swap(candidates, i, j), i, j + 1)
         ELSE sortLoop_Ascending(candidates, i, j + 1)

RECURSIVE sortLoop(_, _, _)
\* the two nested loops that sort by score, descending: position i is
\* exchanged with every later position j that holds a higher score
sortLoop(candidates, i, j) ==
    IF i > Len(candidates) - 1 THEN candidates
    ELSE IF j > Len(candidates) THEN sortLoop(candidates, i + 1, i + 2)
    ELSE IF candidates[j].score > candidates[i].score
         THEN sortLoop(Swap(candidates, i, j), i, j + 1)
         ELSE sortLoop(candidates, i, j + 1)

\* est := len(c.mem.Content) / 4
Estimate(content) == Len(content) \div 4

\* a variant that admits a candidate whenever the budget is not yet spent
Omits_BeforeAdding(tokensUsed, est, tokenBudget, selectedCount) ==
    tokensUsed > tokenBudget /\ selectedCount > 0

\* the test that omits a candidate
Omits(tokensUsed, est, tokenBudget, selectedCount) ==
    tokensUsed + est > tokenBudget /\ selectedCount > 0

RECURSIVE selectLoop(_, _, _)
\* the selection loop over the ranked candidates
selectLoop(candidates, tokenBudget, acc) ==
    IF candidates = <<>> THEN acc
    ELSE LET est == Estimate(candidates[1].mem.content) IN
         IF Omits(acc.tokensUsed, est, tokenBudget, acc.selectedCount)
         THEN selectLoop(Tail(candidates), tokenBudget,
                         [acc EXCEPT !.omittedCount = @ + 1])
         ELSE selectLoop(Tail(candidates), tokenBudget,
                         [acc EXCEPT !.selected = Append(@, candidates[1].mem),
                                     !.tokensUsed = @ + est,
                                     !.selectedCount = @ + 1])

RECURSIVE FormatLines(_)
\* one line per selected memory
FormatLines(selected) ==
    IF selected = <<>> THEN <<>>
    ELSE <<"- [", selected[1].category, "][",
           IF selected[1].chatID = 0 THEN "global" ELSE "chat", "] ">>
         \o selected[1].content \o <<NL>> \o FormatLines(Tail(selected))

NoContext == [text |-> <<>>, ranked |-> <<>>, selected |-> <<>>, log |-> <<>>]

\* BuildDBMemoryContext after the fetch returned memories: the text, and
\* with it the ranking, the selection and the row logged
RankAndSelect(memories, query, tokenBudget) ==
    IF memories = <<>> THEN NoContext
    ELSE LET ranked == sortLoop(Scored(memories, query), 1, 2)
             sel == selectLoop(ranked, tokenBudget,
                               [selected |-> <<>>, tokensUsed |-> 0,
                                selectedCount |-> 0, omittedCount |-> 0])
         IN IF sel.selected = <<>> THEN [NoContext EXCEPT !.ranked = ranked]
            ELSE [text |-> <<"<structured_memories>\n">>
                           \o FormatLines(sel.selected)
                           \o <<"</structured_memories>">>,
                  ranked |-> ranked,
                  selected |-> sel.selected,
                  log |-> <<[method |-> "keyword", candidates |-> Len(ranked),
                             selected |-> sel.selectedCount,
                             omitted |-> sel.omittedCount,
                             tokensEst |-> sel.tokensUsed]>>]

\* -------------------------------------------- compaction (memory_context.go)
SummaryPrefix == "[Previous conversation summary]\n"

SummarySuffix == "\n[End of summary - conversation continues below]"

CompactAck ==
    <<"Understood, I have the context from our previous conversation. Let's continue.">>

\* a variant that summarizes when the list is exactly keepRecent long
CompactNeedsCall_AtBoundary(messages, keepRecent) == Len(messages) >= keepRecent

\* CompactMessages returns early, without a model call, when nothing is old.
CompactNeedsCall(messages, keepRecent) == Len(messages) > keepRecent

\* a variant that keeps one message more than keepRecent
CompactResult_KeepsOneMore(messages, keepRecent, summaryText) ==
    IF summaryText = <<>> THEN messages
    ELSE <<Msg("user", TextContent(<<SummaryPrefix>> \o summaryText \o <<SummarySuffix>>)),
           Msg("assistant", TextContent(CompactAck))>>
         \o SubSeq(messages, Len(messages) - keepRecent, Len(messages))

\* CompactMessages after the summarizer returned summaryText without error.
CompactResult(messages, keepRecent, summaryText) ==
    IF summaryText = <<>> THEN messages
    ELSE <<Msg("user", TextContent(<<SummaryPrefix>> \o summaryText \o <<SummarySuffix>>)),
           Msg("assistant", TextContent(CompactAck))>>
         \o SubSeq(messages, Len(messages) - keepRecent + 1, Len(messages))

\* CompactMessages as a whole.  failed: the summarizer call returned an error
\* (its timeout or the turn's cancellation included); summaryText: the text
\* blocks of its response, concatenated.
CompactMessages(messages, keepRecent, failed, summaryText) ==
    IF ~CompactNeedsCall(messages, keepRecent)
    THEN [messages |-> messages, err |-> "nil", called |-> FALSE]
    ELSE IF failed
    THEN [messages |-> messages, err |-> "compaction summarization failed",
          called |-> TRUE]
    ELSE [messages |-> CompactResult(messages, keepRecent, summaryText),
          err |-> "nil", called |-> TRUE]

\* a variant that loses the list when compaction fails
CompactionStep_DropsOnError(messages, result) ==
    IF result.err /= "nil" THEN <<>> ELSE result.messages

\* ProcessWithEvents on the return of CompactMessages: an error is logged and
\* the list is kept, otherwise the compacted list replaces it.
CompactionStep(messages, result) ==
    IF result.err /= "nil" THEN messages ELSE result.messages

\* ------------------------------------------- tool registry (registry.go)
\* The names registered in the ToolRegistry of the modelled deployment.
RegisteredTools == {"echo"}

\* What a registered tool's Execute may return (content, is_error).
ToolOutcomes ==
    { [content |-> <<"ok">>, isError |-> FALSE],
      [content |-> <<"boom">>, isError |-> TRUE] }

\* tools.Error; ran tells whether a registered tool's Execute was invoked
Error(content) ==
    [content |-> content, isError |-> TRUE, hasDuration |-> FALSE, ran |-> FALSE]

\* ToolRegistry.Has
Has(name) == name \in RegisteredTools

\* mutant of Execute: an unknown name falls through to a registered tool
Execute_UnknownFallsBack(name, outcome) ==
    [content |-> outcome.content, isError |-> outcome.isError,
     hasDuration |-> TRUE, ran |-> TRUE]

\* ToolRegistry.Execute (through ExecuteWithAuth): an unknown name yields an
\* error result; otherwise the tool's own result, with the duration attached.
Execute(name, outcome) ==
    IF ~Has(name) THEN Error(<<"unknown tool: ", name>>)
    ELSE [content |-> outcome.content, isError |-> outcome.isError,
          hasDuration |-> TRUE, ran |-> TRUE]

\* ------------------------------------------- tool authorization (tool.go)
\* tools.ToolAuthContext
ToolAuthContext(callerChannel, callerChatID, controlChatIDs) ==
    [CallerChannel |-> callerChannel, CallerChatID |-> callerChatID,
     ControlChatIDs |-> controlChatIDs]

RECURSIVE IsControlChatFrom(_, _)
\* the loop of IsControlChat over ControlChatIDs, from position i on
IsControlChatFrom(a, i) ==
    IF i > Len(a.ControlChatIDs) THEN FALSE
    ELSE IF a.ControlChatIDs[i] = a.CallerChatID THEN TRUE
    ELSE IsControlChatFrom(a, i + 1)

\* a variant that looks at the first control chat only
IsControlChat_FirstOnly(a) ==
    a.ControlChatIDs /= <<>> /\ a.ControlChatIDs[1] = a.CallerChatID

\* ToolAuthContext.IsControlChat
IsControlChat(a) == IsControlChatFrom(a, 1)

\* ToolAuthContext.CanAccessChat
CanAccessChat(a, targetChatID) ==
    IsControlChat(a) \/ a.CallerChatID = targetChatID

\* ------------------------------------- the auth field of a tool input
\* A JSON value of a tool input: a string or an object with the fields of a
\* ToolAuthContext.  An input is an object (its members in document order),
\* the literal null, another JSON value, or no valid JSON.
JString == [type |-> "string", auth |-> ToolAuthContext("", 0, <<>>)]

JAuth(a) == [type |-> "auth", auth |-> a]

Member(key, val) == [key |-> key, val |-> val]

JObject(members) == [kind |-> "object", members |-> members]

JOther(kind) == [kind |-> kind, members |-> <<>>]

AuthKey == "__miniclawd_auth"

\* the object keys in the byte order json.Marshal writes a map in
KeyOrder == <<"__MINICLAWD_AUTH", "__miniclawd_auth", "text">>

\* encoding/json matches an object key with a struct field by its tag,
\* ignoring case
FoldKey(key) == IF key = "__MINICLAWD_AUTH" THEN "__miniclawd_auth" ELSE key

\* a *ToolAuthContext
NilAuth == [isNil |-> TRUE, auth |-> ToolAuthContext("", 0, <<>>)]

AuthPtr(a) == [isNil |-> FALSE, auth |-> a]

\* json.Unmarshal(input, &m) for a map m: an object fills the map, a later
\* member replacing an earlier one of the same key; null leaves m nil
\* without error; anything else is an error
UnmarshalMap(input) ==
    IF input.kind = "object"
    THEN [err |-> FALSE, isNil |-> FALSE,
          m |-> [k \in {input.members[i].key : i \in 1..Len(input.members)} |->
                   LET last == CHOOSE i \in 1..Len(input.members) :
                                  /\ input.members[i].key = k
                                  /\ \A n \in (i + 1)..Len(input.members) :
                                        input.members[n].key /= k
                   IN input.members[last].val]]
    ELSE IF input.kind = "null"
    THEN [err |-> FALSE, isNil |-> TRUE, m |-> <<>>]
    ELSE [err |-> TRUE, isNil |-> TRUE, m |-> <<>>]

\* json.Marshal(m): the members in the order of their keys
MarshalMap(m) ==
    LET present == SelectSeq(KeyOrder, LAMBDA k : k \in DOMAIN m)
    IN JObject([i \in 1..Len(present) |-> Member(present[i], m[present[i]])])

\* what InjectAuthContext leaves behind: the new input, or a run-time panic
Panicked == [panic |-> TRUE, input |-> JOther("null")]

Returned(input) == [panic |-> FALSE, input |-> input]

\* tools.InjectAuthContext: the map is made anew only when Unmarshal failed;
\* assigning to the nil map that null leaves behind panics
InjectAuthContext(input, a) ==
    LET u == UnmarshalMap(input)
        m == IF u.err THEN <<>> ELSE u.m
    IN IF ~u.err /\ u.isNil THEN Panicked
       ELSE Returned(MarshalMap([k \in DOMAIN m \cup {AuthKey} |->
                                    IF k = AuthKey THEN JAuth(a) ELSE m[k]]))

RECURSIVE DecodeWrapper(_, _, _, _)
\* json.Unmarshal(input, &wrapper) from member i on: a member whose key
\* matches the field sets Auth when its value is an object and is a type
\* error otherwise; decoding goes on after a type error
DecodeWrapper(members, i, ptr, err) ==
    IF i > Len(members) THEN [auth |-> ptr, err |-> err]
    ELSE IF FoldKey(members[i].key) /= AuthKey
    THEN DecodeWrapper(members, i + 1, ptr, err)
    ELSE IF members[i].val.type = "auth"
    THEN DecodeWrapper(members, i + 1, AuthPtr(members[i].val.auth), err)
    ELSE DecodeWrapper(members, i + 1, ptr, TRUE)

\* tools.ExtractAuthContext: nil when Unmarshal returned an error
ExtractAuthContext(input) ==
    IF input.kind /= "object" THEN NilAuth
    ELSE LET decoded == DecodeWrapper(input.members, 1, NilAuth, FALSE)
         IN IF decoded.err THEN NilAuth ELSE decoded.auth

\* ------------------------------------------------ responses (engine.go)
RECURSIVE extractParts(_)
extractParts(content) ==
    IF content = <<>> THEN <<>>
    ELSE IF content[1].type = "text" /\ content[1].text /= <<>>
         THEN <<content[1].text>> \o extractParts(Tail(content))
         ELSE extractParts(Tail(content))

\* extractText joins the non-empty text blocks of a response with newlines.
extractText(resp) == JoinNL(extractParts(resp.content))

RECURSIVE respBlocks(_)
respBlocks(content) ==
    IF content = <<>> THEN <<>>
    ELSE IF content[1].type = "text"
         THEN <<TextBlock(content[1].text)>> \o respBlocks(Tail(content))
    ELSE IF content[1].type = "tool_use"
         THEN <<ToolUseBlock(content[1].id, content[1].name)>> \o respBlocks(Tail(content))
    ELSE respBlocks(Tail(content))

\* responseToContent
responseToContent(resp) ==
    IF Len(resp.content) = 1 /\ resp.content[1].type = "text"
    THEN TextContent(resp.content[1].text)
    ELSE BlocksContent(respBlocks(resp.content))

RECURSIVE toolUseAssistantBlocks(_)
\* the assistantBlocks built in the tool_use branch: empty text blocks dropped
toolUseAssistantBlocks(content) ==
    IF content = <<>> THEN <<>>
    ELSE IF content[1].type = "text"
         THEN (IF content[1].text /= <<>> THEN <<TextBlock(content[1].text)>> ELSE <<>>)
              \o toolUseAssistantBlocks(Tail(content))
    ELSE IF content[1].type = "tool_use"
         THEN <<ToolUseBlock(content[1].id, content[1].name)>>
              \o toolUseAssistantBlocks(Tail(content))
    ELSE toolUseAssistantBlocks(Tail(content))

RECURSIVE toolUsesOf(_)
\* the toolUses collected in the tool_use branch, in response order
toolUsesOf(content) ==
    IF content = <<>> THEN <<>>
    ELSE IF content[1].type = "tool_use"
         THEN <<content[1]>> \o toolUsesOf(Tail(content))
         ELSE toolUsesOf(Tail(content))

NudgeText == <<"Please provide a visible text answer to the user's request.">>

TruncatedText == <<"(Response truncated due to max_tokens limit)">>

RememberedText == <<"Remembered.">>

ExhaustedText(maxIter) ==
    <<"Reached maximum tool iterations (", ToString(maxIter),
      "). The task may be partially complete.">>

\* ----------------------------------- branches of the loop (engine.go)
\* mutant of LoopCond: the bound is off by one
LoopCond_OffByOne(iter, maxIter) == iter <= maxIter

\* The for-loop condition of the agentic loop.
LoopCond(iter, maxIter) == iter < maxIter

\* What a branch of the loop leaves behind: the message list, the stored
\* session, whether SaveSession ran, the retry flag, where control goes
\* ("top" of the loop, tool "dispatch", or "done"), and the return value.
Outcome(msgs, sess, saved, retried, next, text, err, exit) ==
    [messages |-> msgs, session |-> sess, saved |-> saved, retried |-> retried,
     next |-> next, text |-> text, err |-> err, exit |-> exit]

\* mutant of ShouldNudge: every empty visible reply is answered with a nudge
ShouldNudge_Always(text, retried) == TrimSpace(text) = <<>>

\* `strings.TrimSpace(text) == "" && !emptyVisibleRetried`
ShouldNudge(text, retried) == TrimSpace(text) = <<>> /\ ~retried

\* mutant of EndTurnBranch: an empty visible reply is accepted at once
EndTurnBranch_NoNudge(resp, msgs, retried, sess, now) ==
    LET text == StripThinking(extractText(resp))
        final == Append(msgs, Msg("assistant", responseToContent(resp)))
    IN Outcome(final, SaveSession(final, now), TRUE, retried,
               "done", text, "nil", "end_turn")

\* case "end_turn", "stop"
EndTurnBranch(resp, msgs, retried, sess, now) ==
    LET text == StripThinking(extractText(resp)) IN
    IF ShouldNudge(text, retried)
    THEN Outcome(msgs \o <<Msg("assistant", responseToContent(resp)),
                          Msg("user", TextContent(NudgeText))>>,
                 sess, FALSE, TRUE, "top", <<>>, "nil", "none")
    ELSE LET final == Append(msgs, Msg("assistant", responseToContent(resp))) IN
         Outcome(final, SaveSession(final, now), TRUE, retried,
                 "done", text, "nil", "end_turn")

\* mutant of ToolUseBranch: the session is saved in the middle of a tool round
ToolUseBranch_Saves(resp, msgs, retried, sess, now) ==
    LET appended == Append(msgs, Msg("assistant",
                               BlocksContent(toolUseAssistantBlocks(resp.content))))
    IN Outcome(appended, SaveSession(appended, now), TRUE, retried,
               "dispatch", <<>>, "nil", "none")

\* case "tool_use", up to the first dispatch: the assistant message is appended.
ToolUseBranch(resp, msgs, retried, sess, now) ==
    Outcome(Append(msgs, Msg("assistant",
                            BlocksContent(toolUseAssistantBlocks(resp.content)))),
            sess, FALSE, retried, "dispatch", <<>>, "nil", "none")

\* mutant of MaxTokensBranch: no truncation notice for an empty text
MaxTokensBranch_NoNotice(resp, msgs, retried, sess, now) ==
    LET text == StripThinking(extractText(resp))
        final == Append(msgs, Msg("assistant", responseToContent(resp)))
    IN Outcome(final, SaveSession(final, now), TRUE, retried,
               "done", text, "nil", "max_tokens")

\* case "max_tokens"
MaxTokensBranch(resp, msgs, retried, sess, now) ==
    LET stripped == StripThinking(extractText(resp))
        text == IF stripped = <<>> THEN TruncatedText ELSE stripped
        final == Append(msgs, Msg("assistant", responseToContent(resp)))
    IN Outcome(final, SaveSession(final, now), TRUE, retried,
               "done", text, "nil", "max_tokens")

\* default: an unknown stop reason
DefaultBranch(resp, msgs, retried, sess, now) ==
    LET text == StripThinking(extractText(resp))
        final == Append(msgs, Msg("assistant", responseToContent(resp)))
    IN Outcome(final, SaveSession(final, now), TRUE, retried,
               "done", text, "nil", "unknown")

\* the switch on resp.StopReason
SwitchStopReason(resp, msgs, retried, sess, now) ==
    IF resp.stop \in {"end_turn", "stop"}
    THEN EndTurnBranch(resp, msgs, retried, sess, now)
    ELSE IF resp.stop = "tool_use"
    THEN ToolUseBranch(resp, msgs, retried, sess, now)
    ELSE IF resp.stop = "max_tokens"
    THEN MaxTokensBranch(resp, msgs, retried, sess, now)
    ELSE DefaultBranch(resp, msgs, retried, sess, now)

\* mutant of ModelErrorBranch: the partial turn is saved before returning
ModelErrorBranch_Saves(msgs, retried, sess, now) ==
    Outcome(msgs, SaveSession(msgs, now), TRUE, retried, "done", <<>>, "llm", "error")

\* a model call that returned an error: the turn is aborted
ModelErrorBranch(msgs, retried, sess, now) ==
    Outcome(msgs, sess, FALSE, retried, "done", <<>>, "llm", "error")

\* ctx.Err() != nil at the top of an iteration
CancelledBranch(msgs, retried, sess, now) ==
    Outcome(msgs, sess, FALSE, retried, "done", <<>>, "ctx", "cancelled")

\* after the loop: max iterations reached
ExhaustedBranch(msgs, retried, sess, now, maxIter) ==
    Outcome(msgs, SaveSession(msgs, now), TRUE, retried,
            "done", ExhaustedText(maxIter), "nil", "exhausted")

\* mutant of ResultBlockFor: the block is keyed by the tool's name
ResultBlockFor_NameAsId(tu, result) ==
    ToolResultBlock(tu.name, result.content, result.isError)

\* the tool_result block appended for one dispatched invocation
ResultBlockFor(tu, result) ==
    ToolResultBlock(tu.id, result.content, result.isError)

\* mutant of CanStartDispatch: the invocations are started concurrently
CanStartDispatch_Concurrent(nStarted, nReturned, nToolUses) ==
    nStarted < nToolUses

\* the invocations of one turn are dispatched one after the other: the next
\* dispatch starts when every started one has returned
CanStartDispatch(nStarted, nReturned, nToolUses) ==
    nStarted = nReturned /\ nStarted < nToolUses

\* the user message appended after the dispatches of one turn
ToolResultsMessage(blocks) == Msg("user", BlocksContent(blocks))

\* --------------------------------------- load phase (engine.go 45-126)
NoPrompt == [has |-> FALSE, text |-> <<>>]

Prompt(text) == [has |-> TRUE, text |-> text]

\* strings.ToLower on the command token
ToLowerTok(t) == IF t = "/REMEMBER:" THEN "/remember:" ELSE t

\* the explicit memory command: the text to remember, <<>> when the fast
\* path is not taken
RememberContent(db, override) ==
    LET msgs == GetRecentMessages(db, 1) IN
    IF override.has \/ msgs = <<>> THEN <<>>
    ELSE LET lastMsg == msgs[Len(msgs)] IN
         IF ~lastMsg.isFromBot /\ lastMsg.content /= <<>>
            /\ ToLowerTok(lastMsg.content[1]) = "/remember:"
         THEN TrimSpace(Tail(lastMsg.content))
         ELSE <<>>

\* load the session or build the history, then append the override prompt
\* or the user messages stored since the session was saved
BuildMessages(sess, db, chatType, override) ==
    IF sess.found /\ Len(sess.messages) > 0
    THEN IF override.has
         THEN Append(sess.messages, Msg("user", TextContent(override.text)))
         ELSE LET newMsgs == GetNewUserMessagesSince(db, sess.updatedAt,
                                                     MaxHistoryMessages)
              IN IF Len(newMsgs) > 0
                 THEN sess.messages \o HistoryToMessages(newMsgs)
                 ELSE sess.messages
    ELSE LET built == LoadMessagesFromDB(db, chatType, MaxHistoryMessages) IN
         IF override.has
         THEN Append(built, Msg("user", TextContent(override.text)))
         ELSE built

\* attach the image to the most recent message when it is a user message
AttachImage(messages, hasImage) ==
    IF hasImage /\ Len(messages) > 0 /\ messages[Len(messages)].role = "user"
    THEN [messages EXCEPT ![Len(messages)].content =
             BlocksContent(<<ImageBlock, TextBlock(messages[Len(messages)].content.text)>>)]
    ELSE messages

\* --------------------------------------------------------- the inputs
UserMsg(text) == Msg("user", TextContent(text))

AsstMsg(text) == Msg("assistant", TextContent(text))

\* Sessions as the loop itself writes them: after a plain reply, after an
\* exhausted tool round (maxIterations = 1), after a tool round and a reply.
SessionAfterReply ==
    [found |-> TRUE, updatedAt |-> 2,
     messages |-> <<UserMsg(<<"hi">>), AsstMsg(<<"a">>)>>]

SessionAfterExhaustion ==
    [found |-> TRUE, updatedAt |-> 2,
     messages |-> <<UserMsg(<<"hi">>),
                    Msg("assistant", BlocksContent(<<ToolUseBlock("t1", "echo")>>)),
                    Msg("user", BlocksContent(<<ToolResultBlock("t1", <<"ok">>, FALSE)>>))>>]

SessionAfterToolRound ==
    [found |-> TRUE, updatedAt |-> 2,
     messages |-> SessionAfterExhaustion.messages \o <<AsstMsg(<<"a">>)>>]

DbFresh == <<Stored(FALSE, <<>>, <<"hi">>, 1)>>

DbFollowUp ==
    <<Stored(FALSE, <<>>, <<"hi">>, 1), Stored(TRUE, <<>>, <<"a">>, 2),
      Stored(FALSE, <<>>, <<"q">>, 3)>>

DbGroup ==
    <<Stored(FALSE, <<"bob">>, <<"hi">>, 1), Stored(TRUE, <<>>, <<"a">>, 2),
      Stored(FALSE, <<"bob">>, <<"q">>, 3), Stored(FALSE, <<"amy">>, <<"r">>, 4)>>

DbRemember == <<Stored(FALSE, <<>>, <<"/REMEMBER:", " ", "x">>, 1)>>

Scenario(sess, db, chatType, override, hasImage) ==
    [session |-> sess, db |-> db, chatType |-> chatType,
     override |-> override, hasImage |-> hasImage]

\* The request contexts and stored states an invocation starts from.
Scenarios ==
    { Scenario(NoSession, DbFresh, "private", NoPrompt, FALSE),
      Scenario(NoSession, DbFresh, "private", NoPrompt, TRUE),
      Scenario(NoSession, DbRemember, "private", NoPrompt, FALSE),
      Scenario(NoSession, DbGroup, "group", NoPrompt, FALSE),
      Scenario(NoSession, DbFresh, "private", Prompt(<<"task">>), FALSE),
      Scenario(SessionAfterReply, DbFollowUp, "private", NoPrompt, FALSE),
      Scenario(SessionAfterReply, DbFollowUp, "private", Prompt(<<"task">>), FALSE),
      Scenario(SessionAfterExhaustion, DbFollowUp, "private", NoPrompt, FALSE),
      Scenario(SessionAfterToolRound, DbFollowUp, "private", NoPrompt, FALSE) }

\* core.ResponseContentBlock
RText(text) == [type |-> "text", text |-> text]

RToolUse(id, name) == [type |-> "tool_use", id |-> id, name |-> name]

\* The contents a model response may carry.
Contents ==
    { <<>>,
      <<RText(<<"b">>)>>,
      <<RText(<<"<think>", "x", "</think>", " ">>)>>,
      <<RText(<<"c", "<think>", "x">>), RText(<<>>), RText(<<"d">>)>>,
      <<RToolUse("t1", "echo")>>,
      <<RText(<<"b">>), RToolUse("t1", "nosuch"), RToolUse("t2", "echo")>> }

StopReasons == {"end_turn", "stop", "tool_use", "max_tokens", "length"}

Responses == [stop : StopReasons, content : Contents]

\* what respLog records for a model call that returned an error
ErrResp == [stop |-> "error", content |-> <<>>]

\* The summaries the compaction call may return ("" leaves the list as is).
Summaries == { <<>>, <<"sum">> }

\* ------------------------------------------------- the event sink (events.go)
IterationEvent(i) == [type |-> "iteration", iteration |-> i]

ToolStartEvent(name) == [type |-> "tool_start", name |-> name]

ToolResultEvent(name, isError) ==
    [type |-> "tool_result", name |-> name, isError |-> isError]

TextDeltaEvent(delta) == [type |-> "text_delta", delta |-> delta]

FinalResponseEvent(text) == [type |-> "final_response", text |-> text]

\* `if eventCh != nil { eventCh <- ev }`.  The channel's consumer reads until
\* the channel is closed, so a send completes and is an append.
Emit(ch, sent, evs) == IF ch THEN sent \o evs ELSE sent

\* the deltas SendMessageStream hands to onDelta: the text of a block arrives
\* in one delta, a block without text sends none
TextDeltas(content) ==
    LET texts == SelectSeq(content, LAMBDA b : b.type = "text" /\ b.text /= <<>>)
    IN [i \in 1..Len(texts) |-> TextDeltaEvent(texts[i].text)]

\* the accepted end_turn, the max_tokens and the default branch send the
\* final text before returning
FinalEvents(out) ==
    IF out.exit \in {"end_turn", "max_tokens", "unknown"}
    THEN <<FinalResponseEvent(out.text)>>
    ELSE <<>>

\* mutant of ModelStep: with a sink the final turn is returned without saving
ModelStep_SinkSkipsSave(ch, resp, msgs, retried, sess, now, sent) ==
    LET out == SwitchStopReason(resp, msgs, retried, sess, now)
    IN [out |-> IF ch /\ out.saved
                THEN [out EXCEPT !.session = sess, !.saved = FALSE]
                ELSE out,
        events |-> Emit(ch, sent, TextDeltas(resp.content) \o FinalEvents(out))]

\* One model call that returned a response, with or without a sink:
\* SendMessageStream or SendMessage, then the switch on the stop reason.
ModelStep(ch, resp, msgs, retried, sess, now, sent) ==
    LET out == SwitchStopReason(resp, msgs, retried, sess, now)
    IN [out |-> out,
        events |-> Emit(ch, sent, TextDeltas(resp.content) \o FinalEvents(out))]

\* One dispatch that returned, with or without a sink: the result and what
\* the sink received after it.
DispatchStep(ch, tu, outcome, sent) ==
    LET result == Execute(tu.name, outcome)
    IN [result |-> result,
        events |-> Emit(ch, sent, <<ToolResultEvent(tu.name, result.isError)>>)]

\* ------------------------------------------------ provider errors (errors.go)
\* An error is the chain errors.Is walks: the error itself, then what it
\* wraps.  core.ErrRateLimited is a sentinel, compared by identity.
ErrRateLimited == <<"rate limited, retry after backoff">>

\* fmt.Errorf with %w: the cause stays on the chain
Wrap(text, cause) == <<text>> \o cause

\* errors.Is
ErrorsIs(err, target) == \E i \in 1..Len(err) : <<err[i]>> = target

\* the ways doRequest fails
ProviderFailures == {"status_429", "status_other", "transport", "decode"}

\* the error doRequest returns for each of them
doRequestError(failure) ==
    IF failure = "status_429" THEN ErrRateLimited
    ELSE IF failure = "status_other" THEN <<"LLM API error">>
    ELSE IF failure = "transport" THEN Wrap("http request", <<"transport">>)
    ELSE Wrap("decoding response", <<"json">>)

\* mutant of LLMCallError: the cause is formatted into the text with %v
LLMCallError_Formatted(iter, cause) == <<"LLM call (iteration)">>

\* fmt.Errorf("LLM call (iteration %d): %w", iteration, err)
LLMCallError(iter, cause) == Wrap("LLM call (iteration)", cause)

\* no model call has failed
NoLLMError == [failure |-> "none", err |-> <<>>]

\* the stream before the handler's goroutine has returned: open, nothing
\* consumed, no done marker written
NoStream == [closed |-> FALSE, consumed |-> 0, done |-> FALSE]

\* ------------------------------------------------------------ the state
VARIABLES
    pc,                  \* idle | compact | top | call | dispatch | running | done
    req,                 \* the request: chatType, override, hasImage
    maxIterations,       \* cfg.MaxToolIterations
    session,             \* the sessions row of the chat
    db,                  \* the messages rows of the chat, by timestamp
    clock,               \* the store's current time
    memories,            \* contents inserted with InsertMemoryWithMetadata
    messages,            \* the local message list of the invocation
    iteration,           \* the loop counter
    emptyVisibleRetried, \* the nudge flag
    cancelled,           \* ctx.Err() != nil
    toolUses,            \* the invocations of the current tool_use response
    resultBlocks,        \* the tool_result blocks collected so far
    started,             \* dispatches of the current turn that have started
    returned,            \* dispatches of the current turn that have returned
    ret,                 \* the return value: text, err, exit
    sessionAtEntry,      \* history: the sessions row when the invocation began
    initialMessages,     \* history: the list when the loop was entered
    submitted,           \* history: the lists passed to the loop's model calls
    respLog,             \* history: the responses of the loop's model calls
    results,             \* history: what the dispatches of this turn returned
    execLog,             \* history: names of the tools whose Execute ran
    saveCount,           \* history: number of SaveSession calls
    compactCalls,        \* history: number of summarizer calls
    compactOutcome,      \* history: none | failed | empty | summarized
    preCompact,          \* history: the list handed to CompactMessages
    eventCh,             \* whether the invocation was given an event sink
    events,              \* what the sink has received
    llmError,            \* the failed model call and the error returned for it
    stream,              \* the web handler's end of the sink: closed, consumed, done
    fnPc,                \* position of a function under test: off | input | ...
    fnIn,                \* the arguments of the function under test
    fnOut                \* what the function under test returned

loopVars ==
    <<pc, req, maxIterations, session, db, clock, memories, messages, iteration,
      emptyVisibleRetried, cancelled, toolUses, resultBlocks, started, returned,
      ret, sessionAtEntry, initialMessages, submitted, respLog, results,
      execLog, saveCount, compactCalls, compactOutcome, preCompact, eventCh,
      events, llmError, stream>>

fnVars == <<fnPc, fnIn, fnOut>>

vars == <<loopVars, fnVars>>

NoRet == [text |-> <<>>, err |-> "nil", exit |-> "none"]

\* no function is under test while the loop runs
FnOff ==
    /\ fnPc = "off"
    /\ fnIn = <<>>
    /\ fnOut = <<>>

Init ==
    /\ FnOff
    /\ pc = "idle"
    /\ compactOutcome = "none"
    /\ preCompact = <<>>
    /\ eventCh \in BOOLEAN
    /\ events = <<>>
    /\ llmError = NoLLMError
    /\ stream = NoStream
    /\ \E sc \in Scenarios :
          /\ req = [chatType |-> sc.chatType, override |-> sc.override,
                    hasImage |-> sc.hasImage]
          /\ session = sc.session
          /\ db = sc.db
          /\ sessionAtEntry = sc.session
    /\ maxIterations \in 1..MaxIterBound
    /\ clock = 5
    /\ memories = <<>>
    /\ messages = <<>>
    /\ iteration = 0
    /\ emptyVisibleRetried = FALSE
    /\ cancelled = FALSE
    /\ toolUses = <<>>
    /\ resultBlocks = <<>>
    /\ started = 0
    /\ returned = 0
    /\ ret = NoRet
    /\ initialMessages = <<>>
    /\ submitted = <<>>
    /\ respLog = <<>>
    /\ results = <<>>
    /\ execLog = <<>>
    /\ saveCount = 0
    /\ compactCalls = 0

\* apply the outcome of a branch of the loop
Apply(out) ==
    /\ messages' = out.messages
    /\ session' = out.session
    /\ saveCount' = IF out.saved THEN saveCount + 1 ELSE saveCount
    /\ emptyVisibleRetried' = out.retried
    /\ pc' = out.next
    /\ ret' = [text |-> out.text, err |-> out.err, exit |-> out.exit]

\* ProcessWithEvents up to the loop: the /remember fast path, loading the
\* session or the history, the image, and the start of compaction.
Start ==
    /\ pc = "idle"
    /\ LET remember == RememberContent(db, req.override)
           built == AttachImage(BuildMessages(session, db, req.chatType, req.override),
                                req.hasImage)
       IN IF remember /= <<>>
          THEN /\ memories' = Append(memories, remember)
               /\ pc' = "done"
               /\ ret' = [text |-> RememberedText, err |-> "nil", exit |-> "remember"]
               /\ UNCHANGED <<messages, initialMessages, compactCalls, preCompact>>
          ELSE /\ messages' = built
               /\ IF Len(built) > MaxSessionMessages
                     /\ CompactNeedsCall(built, CompactKeepRecent)
                  THEN /\ pc' = "compact"
                       /\ compactCalls' = compactCalls + 1
                       /\ preCompact' = built
                       /\ UNCHANGED initialMessages
                  ELSE /\ pc' = "top"
                       /\ initialMessages' = built
                       /\ UNCHANGED <<compactCalls, preCompact>>
               /\ UNCHANGED <<memories, ret>>
    /\ UNCHANGED <<req, maxIterations, session, db, clock, iteration,
                   emptyVisibleRetried, cancelled, toolUses, resultBlocks,
                   started, returned, sessionAtEntry, submitted, respLog,
                   results, execLog, saveCount, compactOutcome>>
    /\ UNCHANGED <<fnVars, eventCh, events, llmError>>
    /\ UNCHANGED stream

\* the summarizer call of CompactMessages returns: an error leaves the list
\* as it is, a summary replaces the old messages
CompactReturn ==
    /\ pc = "compact"
    /\ \E failed \in BOOLEAN, summary \in Summaries :
          /\ cancelled => failed
          /\ LET result == CompactMessages(messages, CompactKeepRecent, failed,
                                           summary)
                 compacted == CompactionStep(messages, result)
             IN /\ messages' = compacted
                /\ initialMessages' = compacted
                /\ compactOutcome' = IF failed THEN "failed"
                                     ELSE IF summary = <<>> THEN "empty"
                                     ELSE "summarized"
    /\ pc' = "top"
    /\ UNCHANGED <<req, maxIterations, session, db, clock, memories, iteration,
                   emptyVisibleRetried, cancelled, toolUses, resultBlocks,
                   started, returned, ret, sessionAtEntry, submitted, respLog,
                   results, execLog, saveCount, compactCalls>>
    /\ UNCHANGED <<preCompact, fnVars, eventCh, events, llmError>>
    /\ UNCHANGED stream

\* the head of the loop: exhaustion, the cancellation check, the model call
LoopTop ==
    /\ pc = "top"
    /\ IF ~LoopCond(iteration, maxIterations)
       THEN /\ Apply(ExhaustedBranch(messages, emptyVisibleRetried, session,
                                     clock, maxIterations))
            /\ UNCHANGED <<submitted, events>>
       ELSE IF cancelled
       THEN /\ Apply(CancelledBranch(messages, emptyVisibleRetried, session, clock))
            /\ UNCHANGED <<submitted, events>>
       ELSE /\ pc' = "call"
            /\ submitted' = Append(submitted, messages)
            /\ events' = Emit(eventCh, events, <<IterationEvent(iteration)>>)
            /\ UNCHANGED <<messages, session, saveCount, emptyVisibleRetried, ret>>
    /\ UNCHANGED <<req, maxIterations, db, clock, memories, iteration, cancelled,
                   toolUses, resultBlocks, started, returned, sessionAtEntry,
                   initialMessages, respLog, results, execLog, compactCalls>>
    /\ UNCHANGED <<compactOutcome, preCompact, fnVars, eventCh, llmError>>
    /\ UNCHANGED stream

\* the model call fails: the error is returned
ModelError ==
    /\ pc = "call"
    /\ Apply(ModelErrorBranch(messages, emptyVisibleRetried, session, clock))
    /\ respLog' = Append(respLog, ErrResp)
    /\ \E failure \in ProviderFailures :
          llmError' = [failure |-> failure,
                       err |-> LLMCallError(iteration, doRequestError(failure))]
    /\ UNCHANGED <<req, maxIterations, db, clock, memories, iteration, cancelled,
                   toolUses, resultBlocks, started, returned, sessionAtEntry,
                   initialMessages, submitted, results, execLog, compactCalls>>
    /\ UNCHANGED <<compactOutcome, preCompact, fnVars, eventCh, events>>
    /\ UNCHANGED stream

\* the model call returns a response: the switch on its stop reason, up to the
\* return, the next iteration or the first tool dispatch.  The request is
\* bound to ctx (http.NewRequestWithContext), so a cancelled call fails.
ModelReturn ==
    /\ pc = "call"
    /\ ~cancelled
    /\ \E resp \in Responses :
          LET step == ModelStep(eventCh, resp, messages, emptyVisibleRetried,
                                session, clock, events)
              out == step.out
              uses == toolUsesOf(resp.content)
          IN /\ respLog' = Append(respLog, resp)
             /\ events' = step.events
             /\ IF out.next = "dispatch"
                THEN /\ toolUses' = uses
                     /\ resultBlocks' = <<>>
                     /\ results' = <<>>
                     /\ started' = 0
                     /\ returned' = 0
                     /\ IF uses = <<>>
                        THEN /\ Apply([out EXCEPT
                                        !.messages = Append(out.messages,
                                                            ToolResultsMessage(<<>>)),
                                        !.next = "top"])
                             /\ iteration' = iteration + 1
                        ELSE /\ Apply(out)
                             /\ UNCHANGED iteration
                ELSE /\ Apply(out)
                     /\ iteration' = IF out.next = "top" THEN iteration + 1
                                     ELSE iteration
                     /\ UNCHANGED <<toolUses, resultBlocks, results, started, returned>>
    /\ UNCHANGED <<req, maxIterations, db, clock, memories, cancelled,
                   sessionAtEntry, initialMessages, submitted, execLog,
                   compactCalls>>
    /\ UNCHANGED <<compactOutcome, preCompact, fnVars, eventCh, llmError>>
    /\ UNCHANGED stream

\* ExecuteWithAuth is called for the next invocation of the turn
DispatchStart ==
    /\ pc \in {"dispatch", "running"}
    /\ CanStartDispatch(started, returned, Len(toolUses))
    /\ started' = started + 1
    /\ pc' = "running"
    /\ events' = Emit(eventCh, events, <<ToolStartEvent(toolUses[started + 1].name)>>)
    /\ UNCHANGED <<execLog, req, maxIterations, session, db, clock, memories, messages,
                   iteration, emptyVisibleRetried, cancelled, toolUses,
                   resultBlocks, returned, ret, sessionAtEntry, initialMessages,
                   submitted, respLog, results, saveCount, compactCalls>>
    /\ UNCHANGED <<compactOutcome, preCompact, fnVars, eventCh, llmError>>
    /\ UNCHANGED stream

\* ExecuteWithAuth returns: the result block is collected; after the last
\* one the user message is appended and the next iteration begins
DispatchReturn ==
    /\ pc = "running"
    /\ returned < started
    /\ \E outcome \in ToolOutcomes :
          LET tu == toolUses[returned + 1]
              step == DispatchStep(eventCh, tu, outcome, events)
              result == step.result
              blocks == Append(resultBlocks, ResultBlockFor(tu, result))
          IN /\ results' = Append(results, [name |-> tu.name, result |-> result])
             /\ events' = step.events
             /\ execLog' = IF result.ran THEN Append(execLog, tu.name) ELSE execLog
             /\ resultBlocks' = blocks
             /\ returned' = returned + 1
             /\ IF returned + 1 = Len(toolUses)
                THEN /\ messages' = Append(messages, ToolResultsMessage(blocks))
                     /\ iteration' = iteration + 1
                     /\ pc' = "top"
                ELSE /\ pc' = IF returned + 1 = started THEN "dispatch" ELSE "running"
                     /\ UNCHANGED <<messages, iteration>>
    /\ UNCHANGED <<req, maxIterations, session, db, clock, memories,
                   emptyVisibleRetried, cancelled, toolUses, started, ret,
                   sessionAtEntry, initialMessages, submitted, respLog,
                   saveCount, compactCalls>>
    /\ UNCHANGED <<compactOutcome, preCompact, fnVars, eventCh, llmError>>
    /\ UNCHANGED stream

\* the turn's cancellation signal fires
Cancel ==
    /\ pc /= "done"
    /\ ~cancelled
    /\ cancelled' = TRUE
    /\ UNCHANGED <<pc, req, maxIterations, session, db, clock, memories, messages,
                   iteration, emptyVisibleRetried, toolUses, resultBlocks,
                   started, returned, ret, sessionAtEntry, initialMessages,
                   submitted, respLog, results, execLog, saveCount, compactCalls>>
    /\ UNCHANGED <<compactOutcome, preCompact, fnVars, eventCh, events, llmError>>
    /\ UNCHANGED stream

Next ==
    \/ Start
    \/ CompactReturn
    \/ LoopTop
    \/ ModelError
    \/ ModelReturn
    \/ DispatchStart
    \/ DispatchReturn
    \/ Cancel

Spec == Init /\ [][Next]_vars

\* ------------------------------------- a streamed web turn (handleSendStream)
\* handleSendStream calls ProcessWithEvents with a sink, without override
\* prompt and without image, for a chat that is not a group.  The chat has
\* no session yet or the session of an earlier turn with a tool round.
InitStream ==
    /\ Init
    /\ eventCh
    /\ ~req.override.has
    /\ ~req.hasImage
    /\ req.chatType = "private"
    /\ session.found => session = SessionAfterToolRound
    /\ maxIterations <= MaxStreamIter

\* mutant of StreamClosesAt: the stream is closed only after a reply
StreamClosesAt_OnlyOnReply(at, returnValue) ==
    at = "done" /\ returnValue.err = "nil"

\* `defer close(eventCh)` in the goroutine that calls ProcessWithEvents: the
\* close runs when the call has returned, whatever it returned
StreamClosesAt(at, returnValue) == at = "done"

\* the deferred close of the stream
CloseStream ==
    /\ StreamClosesAt(pc, ret)
    /\ ~stream.closed
    /\ stream' = [stream EXCEPT !.closed = TRUE]
    /\ UNCHANGED <<pc, req, maxIterations, session, db, clock, memories, messages,
                   iteration, emptyVisibleRetried, cancelled, toolUses,
                   resultBlocks, started, returned, ret, sessionAtEntry,
                   initialMessages, submitted, respLog, results, execLog,
                   saveCount, compactCalls, compactOutcome, preCompact,
                   eventCh, events, llmError, fnVars>>

\* `for event := range eventCh`: the handler receives the next event and
\* writes it to the response
ConsumeEvent ==
    /\ stream.consumed < Len(events)
    /\ stream' = [stream EXCEPT !.consumed = @ + 1]
    /\ UNCHANGED <<pc, req, maxIterations, session, db, clock, memories, messages,
                   iteration, emptyVisibleRetried, cancelled, toolUses,
                   resultBlocks, started, returned, ret, sessionAtEntry,
                   initialMessages, submitted, respLog, results, execLog,
                   saveCount, compactCalls, compactOutcome, preCompact,
                   eventCh, events, llmError, fnVars>>

\* the range loop ends on the closed, drained channel and the handler writes
\* the done marker
WriteDone ==
    /\ stream.closed
    /\ stream.consumed = Len(events)
    /\ ~stream.done
    /\ stream' = [stream EXCEPT !.done = TRUE]
    /\ UNCHANGED <<pc, req, maxIterations, session, db, clock, memories, messages,
                   iteration, emptyVisibleRetried, cancelled, toolUses,
                   resultBlocks, started, returned, ret, sessionAtEntry,
                   initialMessages, submitted, respLog, results, execLog,
                   saveCount, compactCalls, compactOutcome, preCompact,
                   eventCh, events, llmError, fnVars>>

NextStream ==
    \/ Next
    \/ CloseStream
    \/ ConsumeEvent
    \/ WriteDone

\* The goroutines are scheduled, and a model call or a tool that is waited
\* for returns or fails.
SpecStream == InitStream /\ [][NextStream]_vars /\ WF_vars(NextStream)

\* ------------------------------------------ the functions on their own
\* no invocation of the loop is in progress
LoopOff ==
    /\ pc = "off"
    /\ req = [chatType |-> "private", override |-> NoPrompt, hasImage |-> FALSE]
    /\ maxIterations = 1
    /\ session = NoSession
    /\ sessionAtEntry = NoSession
    /\ db = <<>>
    /\ clock = 5
    /\ memories = <<>>
    /\ messages = <<>>
    /\ iteration = 0
    /\ emptyVisibleRetried = FALSE
    /\ cancelled = FALSE
    /\ toolUses = <<>>
    /\ resultBlocks = <<>>
    /\ started = 0
    /\ returned = 0
    /\ ret = NoRet
    /\ initialMessages = <<>>
    /\ submitted = <<>>
    /\ respLog = <<>>
    /\ results = <<>>
    /\ execLog = <<>>
    /\ saveCount = 0
    /\ compactCalls = 0
    /\ compactOutcome = "none"
    /\ preCompact = <<>>
    /\ eventCh = FALSE
    /\ events = <<>>
    /\ llmError = NoLLMError
    /\ stream = NoStream

\* The messages a list handed to SanitizeMessages is made of: text messages
\* and block messages, of either role, with text, tool_use and tool_result
\* blocks; only t1 is ever the id of a tool_use block.
SanitizeAlphabet ==
    { UserMsg(<<"a">>),
      AsstMsg(<<"b">>),
      Msg("assistant", BlocksContent(<<ToolUseBlock("t1", "echo")>>)),
      Msg("user", BlocksContent(<<ToolResultBlock("t1", <<"ok">>, FALSE)>>)),
      Msg("user", BlocksContent(<<ToolResultBlock("t9", <<"ok">>, FALSE)>>)),
      Msg("user", BlocksContent(<<TextBlock(<<"c">>),
                                  ToolResultBlock("t9", <<"ok">>, FALSE)>>)),
      Msg("user", BlocksContent(<<ToolResultBlock("t1", <<"ok">>, FALSE),
                                  ToolResultBlock("t9", <<"boom">>, TRUE)>>)),
      Msg("assistant", BlocksContent(<<ToolResultBlock("t9", <<"ok">>, FALSE)>>)) }

SanitizeInputs == UNION {[1..n -> SanitizeAlphabet] : n \in 0..MaxSanitizeLen}

InitSanitize ==
    /\ LoopOff
    /\ fnPc = "sanitize"
    /\ fnIn \in SanitizeInputs
    /\ fnOut = <<>>

\* SanitizeMessages is applied to the list
SanitizeFirst ==
    /\ fnPc = "sanitize"
    /\ fnOut' = <<SanitizeMessages(fnIn)>>
    /\ fnPc' = "sanitized"
    /\ UNCHANGED <<fnIn, loopVars>>

\* SanitizeMessages is applied to its own result
SanitizeSecond ==
    /\ fnPc = "sanitized"
    /\ fnOut' = Append(fnOut, SanitizeMessages(fnOut[1]))
    /\ fnPc' = "resanitized"
    /\ UNCHANGED <<fnIn, loopVars>>

NextSanitize ==
    \/ SanitizeFirst
    \/ SanitizeSecond

SpecSanitize == InitSanitize /\ [][NextSanitize]_vars

\* The messages a list handed to CompactMessages is made of.
CompactAlphabet ==
    { UserMsg(<<"a">>),
      AsstMsg(<<"b">>),
      Msg("assistant", BlocksContent(<<ToolUseBlock("t1", "echo")>>)),
      Msg("user", BlocksContent(<<ToolResultBlock("t1", <<"ok">>, FALSE)>>)) }

\* keepRecent is positive: the configuration replaces a value <= 0 by its
\* default.
CompactInputs ==
    [messages : UNION {[1..n -> CompactAlphabet] : n \in 0..MaxCompactLen},
     keepRecent : 1..MaxKeepRecent]

InitCompact ==
    /\ LoopOff
    /\ fnPc = "compact"
    /\ fnIn \in CompactInputs
    /\ fnOut = <<>>

\* CompactMessages is entered: it returns at once or calls the summarizer
CompactEnter ==
    /\ fnPc = "compact"
    /\ IF CompactNeedsCall(fnIn.messages, fnIn.keepRecent)
       THEN /\ fnPc' = "summarizing"
            /\ UNCHANGED fnOut
       ELSE /\ fnPc' = "compacted"
            /\ fnOut' = [result |-> CompactMessages(fnIn.messages, fnIn.keepRecent,
                                                    FALSE, <<>>),
                         failed |-> FALSE, summary |-> <<>>]
    /\ UNCHANGED <<fnIn, loopVars>>

\* the summarizer call returns and CompactMessages with it
CompactSummarized ==
    /\ fnPc = "summarizing"
    /\ \E failed \in BOOLEAN, summary \in Summaries :
          fnOut' = [result |-> CompactMessages(fnIn.messages, fnIn.keepRecent,
                                              failed, summary),
                    failed |-> failed,
                    summary |-> IF failed THEN <<>> ELSE summary]
    /\ fnPc' = "compacted"
    /\ UNCHANGED <<fnIn, loopVars>>

NextCompact ==
    \/ CompactEnter
    \/ CompactSummarized

SpecCompact == InitCompact /\ [][NextCompact]_vars

\* the chat the context is built for
ThisChat == 7

\* The rows the memories table is made of: four that the chat can see (one
\* of them global), an archived one, one of another chat and one below the
\* confidence threshold.
MemoryRows ==
    { Memory(1, ThisChat, <<"c", "a", "t">>, "PROFILE", 50, FALSE),
      Memory(2, ThisChat, <<"a", " ", "d", "o", "g">>, "PROFILE", 50, FALSE),
      Memory(3, 0, <<"D", "o", "g", "s", " ", "b", "a", "r", "k">>,
             "KNOWLEDGE", 90, FALSE),
      Memory(4, ThisChat, <<"t", "h", "e", " ", "c", "a", "t", " ", "s", "a", "t",
                            " ", "o", "n", " ", "i", "t", "!">>,
             "EVENT", 60, FALSE),
      Memory(5, ThisChat, <<"o", "l", "d">>, "EVENT", 90, TRUE),
      Memory(6, 8, <<"c", "a", "t", "s">>, "PROFILE", 90, FALSE),
      Memory(7, ThisChat, <<"d", "o", "g", "?">>, "PROFILE", 40, FALSE) }

\* the tables: rows are distinct records
MemoryTables ==
    UNION {{t \in [1..n -> MemoryRows] :
               \A i, j \in 1..n : i /= j => t[i] /= t[j]} : n \in 0..MaxMemories}

\* the latest user query: none, one with a short word and a capital, one
\* other word
Queries ==
    { <<>>,
      <<"a", "t", " ", "C", "a", "t">>,
      <<"d", "o", "g">> }

RankerInputs ==
    [rows : MemoryTables, chatID : {ThisChat}, query : Queries,
     tokenBudget : (-1)..MaxBudget]

InitRanker ==
    /\ LoopOff
    /\ fnPc = "context"
    /\ fnIn \in RankerInputs
    /\ fnOut = <<>>

\* BuildDBMemoryContext up to the return of the fetch: it returns "" for a
\* budget <= 0, a failed query or no candidate
FetchMemories ==
    /\ fnPc = "context"
    /\ IF fnIn.tokenBudget <= 0
       THEN /\ fnOut' = [fetched |-> <<>>, built |-> NoContext]
            /\ fnPc' = "built"
       ELSE \E queryFails \in BOOLEAN :
               LET found == IF queryFails THEN <<>>
                               ELSE GetMemoriesForContext(fnIn.rows, fnIn.chatID,
                                                          CandidateLimit)
               IN /\ fnOut' = [fetched |-> found, built |-> NoContext]
                  /\ fnPc' = IF found = <<>> THEN "built" ELSE "fetched"
    /\ UNCHANGED <<fnIn, loopVars>>

\* the rest of BuildDBMemoryContext: scoring, sorting, selection, the log
\* row and the text
BuildContext ==
    /\ fnPc = "fetched"
    /\ fnOut' = [fnOut EXCEPT
                     !.built = RankAndSelect(fnOut.fetched, fnIn.query,
                                             fnIn.tokenBudget)]
    /\ fnPc' = "built"
    /\ UNCHANGED <<fnIn, loopVars>>

NextRanker ==
    \/ FetchMemories
    \/ BuildContext

SpecRanker == InitRanker /\ [][NextRanker]_vars

\* the chat ids a ToolAuthContext and a target are drawn from
ChatIDs == {-1, 0, 7, 8}

AuthInputs ==
    [auth : {ToolAuthContext("telegram", c, l) :
                c \in ChatIDs,
                l \in UNION {[1..n -> ChatIDs] : n \in 0..MaxControlChats}},
     target : ChatIDs]

InitAuth ==
    /\ LoopOff
    /\ fnPc = "auth"
    /\ fnIn \in AuthInputs
    /\ fnOut = <<>>

\* a tool asks whether the caller is a control chat
AskIsControlChat ==
    /\ fnPc = "auth"
    /\ fnOut' = [isControlChat |-> IsControlChat(fnIn.auth)]
    /\ fnPc' = "control_asked"
    /\ UNCHANGED <<fnIn, loopVars>>

\* a tool asks whether the caller can access the target chat
AskCanAccessChat ==
    /\ fnPc = "control_asked"
    /\ fnOut' = [isControlChat |-> fnOut.isControlChat,
                 canAccessChat |-> CanAccessChat(fnIn.auth, fnIn.target)]
    /\ fnPc' = "access_asked"
    /\ UNCHANGED <<fnIn, loopVars>>

NextAuth ==
    \/ AskIsControlChat
    \/ AskCanAccessChat

SpecAuth == InitAuth /\ [][NextAuth]_vars

\* ------------------------------------------ the callers of the agent loop
\* Telegram chats, the chat of the web session "main", and the scheduled
\* tasks, both of which belong to the first Telegram chat.
TelegramChats == {1, 2}

WebChat == 3

CallerChats == TelegramChats \cup {WebChat}

ScheduledTasks == {1, 2}

\* ScheduledTask.ChatID
TaskChat(task) == 1

\* config defaults
WebMaxInflightPerSession == 2

WebMaxRequestsPerWindow == 8

\* WebState.checkRateLimit for one session: the inflight count, then the
\* request window
checkRateLimit(count, recent) ==
    IF count >= WebMaxInflightPerSession
    THEN [err |-> "too many concurrent requests", inflight |-> count,
          requests |-> recent]
    ELSE IF recent >= WebMaxRequestsPerWindow
    THEN [err |-> "rate limit exceeded", inflight |-> count, requests |-> recent]
    ELSE [err |-> "nil", inflight |-> count + 1, requests |-> recent + 1]

\* WebState.releaseInflight
releaseInflight(count) == count - 1

\* the invocations of the loop in progress for a chat, over all callers
InProgress(st, chat) ==
    (IF chat \in TelegramChats THEN st.telegram[chat] ELSE 0)
    + (IF chat = WebChat THEN st.inflight ELSE 0)
    + (IF TaskChat(1) = chat THEN st.running[1] ELSE 0)
    + (IF TaskChat(2) = chat THEN st.running[2] ELSE 0)

\* fnOut holds the callers' state: per Telegram chat the handlers inside
\* ProcessWithAgent, the web session's inflight count and window, what the
\* last web request was answered, per task whether it is due and how many
\* executeTask goroutines run it.
InitCallers ==
    /\ LoopOff
    /\ fnPc = "callers"
    /\ fnIn = <<>>
    /\ fnOut = [telegram |-> [c \in TelegramChats |-> 0],
                inflight |-> 0,
                requests |-> 0,
                lastSend |-> "none",
                due |-> [t \in ScheduledTasks |-> FALSE],
                running |-> [t \in ScheduledTasks |-> 0]]

\* StartTelegramBot receives an update and starts handleTelegramMessage in a
\* goroutine of its own, which calls ProcessWithAgent
TelegramUpdate ==
    /\ fnPc = "callers"
    /\ \E c \in TelegramChats :
          /\ fnOut.telegram[c] < MaxInProgress
          /\ fnOut' = [fnOut EXCEPT !.telegram[c] = @ + 1]
    /\ UNCHANGED <<fnPc, fnIn, loopVars>>

\* ProcessWithAgent returns to handleTelegramMessage
TelegramDone ==
    /\ fnPc = "callers"
    /\ \E c \in TelegramChats :
          /\ fnOut.telegram[c] > 0
          /\ fnOut' = [fnOut EXCEPT !.telegram[c] = @ - 1]
    /\ UNCHANGED <<fnPc, fnIn, loopVars>>

\* handleSendStream: the request is refused by checkRateLimit, or the
\* goroutine calling ProcessWithEvents is started
WebSend ==
    /\ fnPc = "callers"
    /\ LET checked == checkRateLimit(fnOut.inflight, fnOut.requests)
       IN fnOut' = [fnOut EXCEPT !.inflight = checked.inflight,
                                 !.requests = checked.requests,
                                 !.lastSend = checked.err]
    /\ UNCHANGED <<fnPc, fnIn, loopVars>>

\* ProcessWithEvents returns in the goroutine of handleSendStream
WebDone ==
    /\ fnPc = "callers"
    /\ fnOut.inflight > 0
    /\ fnOut' = [fnOut EXCEPT !.inflight = releaseInflight(@)]
    /\ UNCHANGED <<fnPc, fnIn, loopVars>>

\* the oldest request of the session leaves the rate window
WindowSlides ==
    /\ fnPc = "callers"
    /\ fnOut.requests > 0
    /\ fnOut' = [fnOut EXCEPT !.requests = @ - 1]
    /\ UNCHANGED <<fnPc, fnIn, loopVars>>

\* the next_run of an active task is reached
TaskDue ==
    /\ fnPc = "callers"
    /\ \E t \in ScheduledTasks :
          /\ ~fnOut.due[t]
          /\ fnOut' = [fnOut EXCEPT !.due[t] = TRUE]
    /\ UNCHANGED <<fnPc, fnIn, loopVars>>

\* runDueTasks: executeTask is started in a goroutine for every due task
runDueTasks ==
    /\ fnPc = "callers"
    /\ \E t \in ScheduledTasks : fnOut.due[t]
    /\ \A t \in ScheduledTasks : fnOut.due[t] => fnOut.running[t] < MaxInProgress
    /\ fnOut' = [fnOut EXCEPT !.running =
                    [t \in ScheduledTasks |->
                        IF fnOut.due[t] THEN fnOut.running[t] + 1
                        ELSE fnOut.running[t]]]
    /\ UNCHANGED <<fnPc, fnIn, loopVars>>

\* executeTask: ProcessWithAgent has returned, the next run is computed (or
\* the task is completed), so the task is no longer due
executeTaskDone ==
    /\ fnPc = "callers"
    /\ \E t \in ScheduledTasks :
          /\ fnOut.running[t] > 0
          /\ fnOut' = [fnOut EXCEPT !.running[t] = @ - 1, !.due[t] = FALSE]
    /\ UNCHANGED <<fnPc, fnIn, loopVars>>

NextCallers ==
    \/ TelegramUpdate
    \/ TelegramDone
    \/ WebSend
    \/ WebDone
    \/ WindowSlides
    \/ TaskDue
    \/ runDueTasks
    \/ executeTaskDone

SpecCallers == InitCallers /\ [][NextCallers]_vars

\* --------------------------------------------- successive turns of one chat
\* The n-th user message of the chat, stored at second ts (timestamps are
\* RFC3339 with second precision).
UserRow(n, ts) == Stored(FALSE, <<"u">>, <<ToString(n)>>, ts)

\* the row the caller stores for the bot's reply
BotRow(text, ts) == Stored(TRUE, <<>>, text, ts)

\* the reply the model gives in these turns
TurnReply == [stop |-> "end_turn", content |-> <<RText(<<"r">>)>>]

\* the user rows of a query that an earlier turn had already appended
Repeated(rows, before) == {i \in 1..Len(rows) : rows[i].content \in before}

NoTurn == [normal |-> FALSE, expected |-> <<>>, appended |-> <<>>, repeated |-> FALSE]

\* fnOut holds the store and its history: the messages rows and the sessions
\* row of the chat, the current second, the user rows stored since the
\* session was last saved, the contents appended by turns so far, the
\* numbers of rows stored and of turns begun, and what the latest turn
\* appended.  fnIn holds the message list of the turn in progress.
InitTurns ==
    /\ LoopOff
    /\ fnPc = "between"
    /\ fnIn = <<>>
    /\ fnOut = [db |-> <<>>, session |-> NoSession, now |-> 1,
                pending |-> <<>>, before |-> {}, stored |-> 0, turns |-> 0,
                last |-> NoTurn]

\* a user message is stored without a turn being started for it (a group
\* message that does not address the bot), between turns or during one
MessageStored ==
    /\ fnPc \in {"between", "in_turn"}
    /\ fnOut.stored < MaxStored
    /\ LET row == UserRow(fnOut.stored + 1, fnOut.now)
       IN fnOut' = [fnOut EXCEPT !.db = Append(@, row),
                                 !.pending = Append(@, row),
                                 !.stored = @ + 1]
    /\ UNCHANGED <<fnPc, fnIn, loopVars>>

\* the caller stores the user's message and invokes the loop without an
\* override prompt; the loop loads the session and appends the new rows
TurnBegins ==
    /\ fnPc = "between"
    /\ fnOut.stored < MaxStored
    /\ fnOut.turns < MaxTurns
    /\ LET row == UserRow(fnOut.stored + 1, fnOut.now)
           rows == Append(fnOut.db, row)
           waiting == Append(fnOut.pending, row)
           sess == fnOut.session
           normal == sess.found /\ Len(sess.messages) > 0
           built == BuildMessages(sess, rows, "private", NoPrompt)
           selected == GetNewUserMessagesSince(rows, sess.updatedAt,
                                               MaxHistoryMessages)
       IN /\ fnIn' = built
          /\ fnOut' = [fnOut EXCEPT
                !.db = rows,
                !.pending = waiting,
                !.stored = @ + 1,
                !.turns = @ + 1,
                !.before = IF normal
                           THEN @ \cup {selected[i].content : i \in 1..Len(selected)}
                           ELSE @,
                !.last = [normal |-> normal,
                          expected |-> HistoryToMessages(waiting),
                          appended |-> IF normal
                                       THEN SubSeq(built, Len(sess.messages) + 1,
                                                   Len(built))
                                       ELSE <<>>,
                          repeated |-> normal
                                       /\ Repeated(selected, fnOut.before) /= {}]]
    /\ fnPc' = "in_turn"
    /\ UNCHANGED loopVars

\* the model replies, the loop saves the session and returns, and the caller
\* stores the reply
TurnEnds ==
    /\ fnPc = "in_turn"
    /\ LET out == EndTurnBranch(TurnReply, fnIn, FALSE, fnOut.session, fnOut.now)
       IN fnOut' = [fnOut EXCEPT
             !.session = out.session,
             !.db = Append(@, BotRow(out.text, fnOut.now)),
             !.pending = <<>>]
    /\ fnPc' = "between"
    /\ fnIn' = <<>>
    /\ UNCHANGED loopVars

\* a second passes
ClockTick ==
    /\ fnPc \in {"between", "in_turn"}
    /\ fnOut.now < MaxNow
    /\ fnOut' = [fnOut EXCEPT !.now = @ + 1]
    /\ UNCHANGED <<fnPc, fnIn, loopVars>>

NextTurns ==
    \/ MessageStored
    \/ TurnBegins
    \/ TurnEnds
    \/ ClockTick

SpecTurns == InitTurns /\ [][NextTurns]_vars

\* ------------------------------------------- the write path of the store
\* The goroutines that write, the session list stored before any of them
\* ran, and the lists they save.
Writers == 1..MaxWriters

PreviousList == <<"p1", "p2">>

SavedLists == { <<"a1">>, <<"b1", "b2", "b3">> }

\* what a write does inside the lock: SaveSession replaces the sessions row
\* of the chat, another statement leaves it alone
WriteKinds == {"SaveSession", "other"}

\* mutant of muFree: Lock succeeds while another goroutine holds the mutex
muFree_NoExclusion(holder) == TRUE

\* sync.Mutex: Lock returns only when no goroutine holds the mutex
muFree(holder) == holder = 0

\* `INSERT OR REPLACE INTO sessions ... VALUES (?, ?, ?)`: one statement
\* that replaces the whole row
execStatement(row, kind, list) == IF kind = "SaveSession" THEN list ELSE row

\* fnOut holds the mutex holder (0: nobody), each writer's position (idle,
\* waiting in mu.Lock, locked, executed), what it writes, the sessions row
\* and the lists LoadSession has returned to readers.
InitStore ==
    /\ LoopOff
    /\ fnPc = "store"
    /\ fnIn = <<>>
    /\ fnOut = [mu |-> 0,
                at |-> [w \in Writers |-> "idle"],
                kind |-> [w \in Writers |-> "other"],
                list |-> [w \in Writers |-> <<>>],
                row |-> PreviousList,
                seen |-> {}]

\* a goroutine calls exec, execTx or withLock: it reaches d.mu.Lock()
withLockCalled ==
    /\ fnPc = "store"
    /\ \E w \in Writers, k \in WriteKinds, l \in SavedLists :
          /\ fnOut.at[w] = "idle"
          /\ fnOut' = [fnOut EXCEPT !.at[w] = "waiting", !.kind[w] = k,
                                    !.list[w] = l]
    /\ UNCHANGED <<fnPc, fnIn, loopVars>>

\* d.mu.Lock() returns
muLock ==
    /\ fnPc = "store"
    /\ \E w \in Writers :
          /\ fnOut.at[w] = "waiting"
          /\ muFree(fnOut.mu)
          /\ fnOut' = [fnOut EXCEPT !.at[w] = "locked", !.mu = w]
    /\ UNCHANGED <<fnPc, fnIn, loopVars>>

\* fn(): the statement of the write is executed
fnBody ==
    /\ fnPc = "store"
    /\ \E w \in Writers :
          /\ fnOut.at[w] = "locked"
          /\ fnOut' = [fnOut EXCEPT
                !.at[w] = "executed",
                !.row = execStatement(@, fnOut.kind[w], fnOut.list[w])]
    /\ UNCHANGED <<fnPc, fnIn, loopVars>>

\* the deferred d.mu.Unlock()
muUnlock ==
    /\ fnPc = "store"
    /\ \E w \in Writers :
          /\ fnOut.at[w] = "executed"
          /\ fnOut' = [fnOut EXCEPT !.at[w] = "idle",
                                    !.mu = IF @ = w THEN 0 ELSE @]
    /\ UNCHANGED <<fnPc, fnIn, loopVars>>

\* Database.LoadSession, which takes no lock, returns the row to a reader
LoadSession ==
    /\ fnPc = "store"
    /\ fnOut' = [fnOut EXCEPT !.seen = @ \cup {fnOut.row}]
    /\ UNCHANGED <<fnPc, fnIn, loopVars>>

NextStore ==
    \/ withLockCalled
    \/ muLock
    \/ fnBody
    \/ muUnlock
    \/ LoadSession

SpecStore == InitStore /\ [][NextStore]_vars

\* ------------------------------------------- auth injection on its own
\* The context the loop builds from the request, and one the model writes
\* into its input.
LoopAuth == ToolAuthContext("web", 7, <<>>)

ForgedAuth == ToolAuthContext("web", 8, <<8>>)

\* the inputs a model may supply: objects of up to MaxMembers members, null,
\* an array, and text that is no JSON
InjectInputs ==
    LET members == {Member(k, v) :
                      k \in {"__MINICLAWD_AUTH", "__miniclawd_auth", "text"},
                      v \in {JString, JAuth(ForgedAuth)}}
    IN {JObject(l) : l \in UNION {[1..n -> members] : n \in 0..MaxMembers}}
       \cup {JOther("null"), JOther("array"), JOther("invalid")}

InitInject ==
    /\ LoopOff
    /\ fnPc = "inject"
    /\ fnIn \in [input : InjectInputs, auth : {LoopAuth, ForgedAuth}]
    /\ fnOut = <<>>

\* ExecuteWithAuth injects the auth context into the input
ExecuteWithAuth ==
    /\ fnPc = "inject"
    /\ fnOut' = <<InjectAuthContext(fnIn.input, fnIn.auth)>>
    /\ fnPc' = "injected"
    /\ UNCHANGED <<fnIn, loopVars>>

\* the tool extracts the auth context from the input it was given
ToolExtracts ==
    /\ fnPc = "injected"
    /\ ~fnOut[1].panic
    /\ fnOut' = Append(fnOut, ExtractAuthContext(fnOut[1].input))
    /\ fnPc' = "extracted"
    /\ UNCHANGED <<fnIn, loopVars>>

NextInject ==
    \/ ExecuteWithAuth
    \/ ToolExtracts

SpecInject == InitInject /\ [][NextInject]_vars

\* ------------------------------------- concurrent web requests, by step
\* The handlers of POST /api/send_stream run concurrently, one goroutine per
\* request.  fnOut holds the inflight map and the length of each session's
\* request window, and per handler: where it is (at), its session key, the
\* slots it has taken and not given back (holds); limited records that a
\* request has been refused by the rate window.
WebRequests == 1..MaxWebRequests

SessionKeys == {"main", "other"}

\* the slot taken before the window check is given back on rejection
windowRejected_KeepsSlot(count) == count

\* checkRateLimit, the rate window is full: s.inflight[sessionKey]--
windowRejected(count) == count - 1

\* releaseInflight on the map: the entry is deleted when it reaches 0
releaseSlot(count) == IF releaseInflight(count) <= 0 THEN 0 ELSE releaseInflight(count)

InitWeb ==
    /\ LoopOff
    /\ fnPc = "web"
    /\ fnIn = <<>>
    /\ fnOut = [inflight |-> [k \in SessionKeys |-> 0],
                requests |-> [k \in SessionKeys |-> 0],
                at |-> [r \in WebRequests |-> "idle"],
                key |-> [r \in WebRequests |-> "main"],
                holds |-> [r \in WebRequests |-> 0],
                limited |-> FALSE]

\* handleSendStream: the body is decoded and checkRateLimit is entered (the
\* session key is a local of the handler, forgotten when it returns)
RequestArrives(r) ==
    /\ fnOut.at[r] = "idle"
    /\ \E k \in SessionKeys :
          fnOut' = [fnOut EXCEPT !.at[r] = "inflight_check", !.key[r] = k]
    /\ UNCHANGED <<fnPc, fnIn, loopVars>>

\* checkRateLimit under inflightMu: refuse at the limit, else take a slot
InflightCheck(r) ==
    /\ fnOut.at[r] = "inflight_check"
    /\ LET k == fnOut.key[r]
       IN IF fnOut.inflight[k] >= WebMaxInflightPerSession
          THEN fnOut' = [fnOut EXCEPT !.at[r] = "idle", !.key[r] = "main"]
          ELSE fnOut' = [fnOut EXCEPT !.inflight[k] = @ + 1,
                                      !.holds[r] = @ + 1,
                                      !.at[r] = "window_check"]
    /\ UNCHANGED <<fnPc, fnIn, loopVars>>

\* checkRateLimit under requestsMu: refuse and give the slot back when the
\* window is full, else record the request
WindowCheck(r) ==
    /\ fnOut.at[r] = "window_check"
    /\ LET k == fnOut.key[r]
       IN IF fnOut.requests[k] >= WebMaxRequestsPerWindow
          THEN fnOut' = [fnOut EXCEPT
                            !.inflight[k] = windowRejected(@),
                            !.holds[r] = @ - (fnOut.inflight[k] - windowRejected(fnOut.inflight[k])),
                            !.at[r] = "idle", !.key[r] = "main",
                            !.limited = TRUE]
          ELSE fnOut' = [fnOut EXCEPT !.requests[k] = @ + 1,
                                      !.at[r] = "admitted"]
    /\ UNCHANGED <<fnPc, fnIn, loopVars>>

\* handleSendStream after admission: the chat cannot be resolved, or the
\* writer cannot stream (both release and return), or the goroutine that
\* calls ProcessWithEvents is started
AfterAdmission(r) ==
    /\ fnOut.at[r] = "admitted"
    /\ LET k == fnOut.key[r]
       IN \/ fnOut' = [fnOut EXCEPT !.inflight[k] = releaseSlot(@),
                                    !.holds[r] = @ - 1,
                                    !.at[r] = "idle", !.key[r] = "main"]
          \/ fnOut' = [fnOut EXCEPT !.at[r] = "agent"]
    /\ UNCHANGED <<fnPc, fnIn, loopVars>>

\* the goroutine: ProcessWithEvents returns a reply or an error, and the
\* deferred releaseInflight runs
AgentReturns(r) ==
    /\ fnOut.at[r] = "agent"
    /\ LET k == fnOut.key[r]
       IN fnOut' = [fnOut EXCEPT !.inflight[k] = releaseSlot(@),
                                 !.holds[r] = @ - 1,
                                 !.at[r] = "idle", !.key[r] = "main"]
    /\ UNCHANGED <<fnPc, fnIn, loopVars>>

\* time passes: the oldest request of a session leaves its window
WindowMoves ==
    /\ \E k \in SessionKeys :
          /\ fnOut.requests[k] > 0
          /\ fnOut' = [fnOut EXCEPT !.requests[k] = @ - 1]
    /\ UNCHANGED <<fnPc, fnIn, loopVars>>

NextWeb ==
    \/ \E r \in WebRequests : RequestArrives(r)
    \/ \E r \in WebRequests : InflightCheck(r)
    \/ \E r \in WebRequests : WindowCheck(r)
    \/ \E r \in WebRequests : AfterAdmission(r)
    \/ \E r \in WebRequests : AgentReturns(r)
    \/ WindowMoves

SpecWeb == InitWeb /\ [][NextWeb]_vars

\* ------------------------------------------ the scheduler, task by task
\* fnIn holds what the scheduler does not change: each task's schedule type
\* and whether the chat type of its chat can be resolved.  fnOut holds each
\* task's status, whether its next_run has been reached, the executeTask
\* goroutines running it, and how many have been started for it.
Tasks == 1..MaxTasks

InitScheduler ==
    /\ LoopOff
    /\ fnPc = "scheduler"
    /\ fnIn \in [type : [Tasks -> {"once", "cron"}],
                 resolvable : [Tasks -> BOOLEAN]]
    /\ fnOut = [status |-> [t \in Tasks |-> "active"],
                due |-> [t \in Tasks |-> FALSE],
                running |-> [t \in Tasks |-> 0],
                starts |-> [t \in Tasks |-> 0]]

\* GetDueTasks: the active tasks whose next_run is not after now
GetDueTasks == {t \in Tasks : fnOut.status[t] = "active" /\ fnOut.due[t]}

\* time passes and the next_run of an active task is reached
NextRunReached ==
    /\ \E t \in Tasks :
          /\ fnOut.status[t] = "active"
          /\ ~fnOut.due[t]
          /\ fnOut' = [fnOut EXCEPT !.due[t] = TRUE]
    /\ UNCHANGED <<fnPc, fnIn, loopVars>>

\* the ticker fires: runDueTasks starts executeTask in a goroutine for every
\* task GetDueTasks returns
SchedulerPoll ==
    /\ GetDueTasks /= {}
    /\ \A t \in GetDueTasks : fnOut.starts[t] < MaxStarts
    /\ fnOut' = [fnOut EXCEPT
                    !.running = [t \in Tasks |->
                                   IF t \in GetDueTasks THEN @[t] + 1 ELSE @[t]],
                    !.starts = [t \in Tasks |->
                                   IF t \in GetDueTasks THEN @[t] + 1 ELSE @[t]]]
    /\ UNCHANGED <<fnPc, fnIn, loopVars>>

\* executeTask comes to its end: at once and with the task untouched when
\* the chat type cannot be resolved; else after the agent turn, a cron task
\* with a new next_run and a one-shot task completed
executeTaskReturns ==
    /\ \E t \in Tasks :
          /\ fnOut.running[t] > 0
          /\ fnOut' =
                IF ~fnIn.resolvable[t]
                THEN [fnOut EXCEPT !.running[t] = @ - 1]
                ELSE IF fnIn.type[t] = "cron"
                THEN [fnOut EXCEPT !.running[t] = @ - 1, !.due[t] = FALSE]
                ELSE [fnOut EXCEPT !.running[t] = @ - 1,
                                   !.status[t] = "completed"]
    /\ UNCHANGED <<fnPc, fnIn, loopVars>>

NextScheduler ==
    \/ NextRunReached
    \/ SchedulerPoll
    \/ executeTaskReturns

SpecScheduler == InitScheduler /\ [][NextScheduler]_vars

\* --------------------------------- concurrent ResolveOrCreateChatID calls
\* Each statement of ResolveOrCreateChatID is one step; the statements of
\* concurrent calls interleave.  fnOut holds the rows of the chats table
\* (chat_id and the pair of channel and external id) and per caller: where
\* it is, its pair, its chatID variable and the error it returned.
Resolvers == 1..MaxResolvers

ChatPairs == {"telegram:100", "telegram:200"}

ChatRow(id, pair) == [chat_id |-> id, pair |-> pair]

\* SELECT MAX(chat_id) FROM chats, plus one; 1 for an empty table
NextChatID(rows) ==
    IF rows = {} THEN 1
    ELSE 1 + (CHOOSE id \in {row.chat_id : row \in rows} :
                 \A row \in rows : row.chat_id <= id)

InitResolve ==
    /\ LoopOff
    /\ fnPc = "resolve"
    /\ fnIn = <<>>
    /\ fnOut = [chats |-> {},
                at |-> [c \in Resolvers |-> "idle"],
                pair |-> [c \in Resolvers |-> "telegram:100"],
                chatID |-> [c \in Resolvers |-> 0],
                err |-> [c \in Resolvers |-> "nil"]]

\* a handler calls ResolveOrCreateChatID
ResolveCalled(c) ==
    /\ fnOut.at[c] = "idle"
    /\ \E pair \in ChatPairs :
          fnOut' = [fnOut EXCEPT !.at[c] = "select", !.pair[c] = pair]
    /\ UNCHANGED <<fnPc, fnIn, loopVars>>

\* SELECT chat_id ... WHERE channel = ? AND external_chat_id = ?: a row of
\* the pair (any one, the query has no order) is returned after its title
\* was updated; without a row the call goes on to create one
SelectChat(c) ==
    /\ fnOut.at[c] = "select"
    /\ LET found == {row \in fnOut.chats : row.pair = fnOut.pair[c]}
       IN IF found = {}
          THEN fnOut' = [fnOut EXCEPT !.at[c] = "max"]
          ELSE \E row \in found :
                  fnOut' = [fnOut EXCEPT !.at[c] = "returned",
                                         !.chatID[c] = row.chat_id]
    /\ UNCHANGED <<fnPc, fnIn, loopVars>>

\* SELECT MAX(chat_id) FROM chats
SelectMax(c) ==
    /\ fnOut.at[c] = "max"
    /\ fnOut' = [fnOut EXCEPT !.at[c] = "insert",
                              !.chatID[c] = NextChatID(fnOut.chats)]
    /\ UNCHANGED <<fnPc, fnIn, loopVars>>

\* INSERT INTO chats: chat_id is the primary key, so a second row of the
\* same chat_id is refused; return chatID, err
InsertChat(c) ==
    /\ fnOut.at[c] = "insert"
    /\ IF \E row \in fnOut.chats : row.chat_id = fnOut.chatID[c]
       THEN fnOut' = [fnOut EXCEPT !.at[c] = "returned",
                                   !.err[c] = "constraint"]
       ELSE fnOut' = [fnOut EXCEPT
                         !.at[c] = "returned",
                         !.chats = @ \cup {ChatRow(fnOut.chatID[c], fnOut.pair[c])}]
    /\ UNCHANGED <<fnPc, fnIn, loopVars>>

NextResolve ==
    \/ \E c \in Resolvers : ResolveCalled(c)
    \/ \E c \in Resolvers : SelectChat(c)
    \/ \E c \in Resolvers : SelectMax(c)
    \/ \E c \in Resolvers : InsertChat(c)

SpecResolve == InitResolve /\ [][NextResolve]_vars

\* ------------------------------- the session write of a terminal branch
\* Database.SaveSession: one INSERT OR REPLACE through exec, which returns
\* the statement's error; a failed statement leaves the row as it was
DatabaseSaveSession(stored, messagesJSON, nowTs, execFails) ==
    IF execFails
    THEN [session |-> stored, err |-> "exec"]
    ELSE [session |-> [found |-> TRUE, messages |-> messagesJSON,
                       updatedAt |-> nowTs],
          err |-> "nil"]

\* agent.SaveSession: the list is stripped of images, marshalled and handed
\* to the database; the database's error is returned
SaveSessionResult(stored, list, nowTs, execFails) ==
    DatabaseSaveSession(stored, StripImagesForSession(list), nowTs, execFails)

\* the return values of a terminal branch and of iteration exhaustion: the
\* statement SaveSession(deps.DB, reqCtx.ChatID, messages) drops the result,
\* then text and a nil error are returned
TerminalReturn(exit, saved) ==
    [text |-> IF exit = "exhausted" THEN ExhaustedText(MaxIterBound) ELSE <<"reply">>,
     err |-> "nil"]

\* the final message lists of a turn, and the session stored before it
FinalLists ==
    LET alphabet == { UserMsg(<<"a">>),
                      AsstMsg(<<"b">>),
                      Msg("user", BlocksContent(<<ImageBlock, TextBlock(<<"c">>)>>)) }
    IN UNION {[1..n -> alphabet] : n \in 1..MaxFinalLen}

InitSave ==
    /\ LoopOff
    /\ fnPc = "terminal"
    /\ fnIn \in [messages : FinalLists,
                 stored : {NoSession, SaveSession(<<UserMsg(<<"a">>)>>, 0)},
                 exit : {"end_turn", "max_tokens", "unknown", "exhausted"}]
    /\ fnOut = [session |-> fnIn.stored, saveErr |-> "nil",
                ret |-> [text |-> <<>>, err |-> "nil"]]

\* a terminal branch or the exhaustion exit saves the session and returns;
\* the write succeeds or fails
TerminalSave ==
    /\ fnPc = "terminal"
    /\ \E execFails \in BOOLEAN :
          LET saved == SaveSessionResult(fnIn.stored, fnIn.messages, 1, execFails)
          IN fnOut' = [session |-> saved.session,
                       saveErr |-> saved.err,
                       ret |-> TerminalReturn(fnIn.exit, saved)]
    /\ fnPc' = "returned"
    /\ UNCHANGED <<fnIn, loopVars>>

\* the caller reads the session back
SessionReadBack ==
    /\ fnPc = "returned"
    /\ fnPc' = "read"
    /\ UNCHANGED <<fnIn, fnOut, loopVars>>

NextSave ==
    \/ TerminalSave
    \/ SessionReadBack

SpecSave == InitSave /\ [][NextSave]_vars

\* ------------------------------------------------------------ properties
Last(seq) == seq[Len(seq)]

IsFinalExit(exit) == exit \in {"end_turn", "max_tokens", "unknown", "exhausted"}

\* every response so far asked for tools
AllToolUse == \A i \in 1..Len(respLog) : respLog[i].stop = "tool_use"

\* C1: during one invocation the session record is written at most once, and
\* only by the step that ends the invocation on a terminal branch (accepted
\* end_turn/stop reply, max_tokens, unknown stop reason) or on exhaustion;
\* never by a tool_use step, a dispatch step or the nudge step.
C1_SessionWrittenOnlyAtCommit ==
    [][(session' /= session \/ saveCount' /= saveCount)
        => /\ saveCount = 0
           /\ saveCount' = 1
           /\ pc \in {"call", "top"}
           /\ pc' = "done"
           /\ IsFinalExit(ret'.exit)
           /\ session' = SaveSession(messages', clock)]_vars

\* a turn went through a tool round and the nudge and was then saved, once
C1_Witness ==
    /\ pc = "done"
    /\ saveCount = 1
    /\ session /= sessionAtEntry
    /\ emptyVisibleRetried
    /\ \E i \in 1..Len(respLog) : respLog[i].stop = "tool_use"

\* C2: with maxIterations = K and a provider that always returns tool_use
\* (no provider error, no aborting cancellation) the loop makes exactly K
\* model calls, returns the maximum-iterations notice with a nil error and
\* persists a session of the initial length plus 2*K; it never makes more
\* than K calls.
C2_ExhaustionAfterKCalls ==
    /\ Len(submitted) <= maxIterations
    /\ (pc = "done" /\ respLog /= <<>> /\ AllToolUse /\ ret.exit /= "cancelled")
         => /\ Len(submitted) = maxIterations
            /\ Len(respLog) = maxIterations
            /\ ret = [text |-> ExhaustedText(maxIterations), err |-> "nil",
                      exit |-> "exhausted"]
            /\ session.found
            /\ Len(session.messages) = Len(initialMessages) + 2 * maxIterations

\* an all-tool_use turn of at least two rounds ran into exhaustion
C2_Witness ==
    /\ pc = "done"
    /\ AllToolUse
    /\ maxIterations >= 2
    /\ Len(respLog) = maxIterations
    /\ ret.exit = "exhausted"

\* C3: when a model call of the turn returns an error, at any iteration, the
\* invocation returns that error and the stored session is the one stored
\* before the invocation: no SaveSession was performed.
C3_ProviderErrorNoSave ==
    (respLog /= <<>> /\ Last(respLog) = ErrResp)
        => /\ pc = "done"
           /\ ret.err = "llm"
           /\ ret.text = <<>>
           /\ saveCount = 0
           /\ session = sessionAtEntry

\* the model call failed after an earlier tool round of the same turn
C3_Witness ==
    /\ Len(respLog) >= 2
    /\ Last(respLog) = ErrResp
    /\ respLog[1].stop = "tool_use"
    /\ Len(messages) > Len(initialMessages)

\* C4: once the cancellation signal has fired during an invocation, the loop
\* performs no session write: the stored session is the one stored before.
C4_CancelNeverPersists ==
    cancelled => /\ saveCount = 0
                 /\ session = sessionAtEntry

NoAdjacentSameRole(msgs) ==
    \A i \in 1..(Len(msgs) - 1) : msgs[i].role /= msgs[i + 1].role

\* the ids of the tool_use blocks of the assistant messages of msgs
AssistantToolUseIDs(msgs) ==
    { msgs[i].content.blocks[j].id :
        <<i, j>> \in { <<i, j>> \in (1..Len(msgs)) \X (1..4) :
                        /\ msgs[i].role = "assistant"
                        /\ msgs[i].content.isBlocks
                        /\ j <= Len(msgs[i].content.blocks)
                        /\ msgs[i].content.blocks[j].type = "tool_use" } }

NoOrphanToolResult(msgs) ==
    \A i \in 1..Len(msgs) :
        msgs[i].content.isBlocks =>
            \A j \in 1..Len(msgs[i].content.blocks) :
                msgs[i].content.blocks[j].type = "tool_result"
                    => msgs[i].content.blocks[j].toolUseID \in AssistantToolUseIDs(msgs)

\* C5: every message list submitted to the model by the loop is sanitized:
\* no two adjacent messages of the same role and no orphan tool_result.
C5_SubmittedSanitized ==
    \A k \in 1..Len(submitted) :
        NoAdjacentSameRole(submitted[k]) /\ NoOrphanToolResult(submitted[k])

\* the tool_use blocks of a response, in the order the model issued them
IssuedToolUses(resp) ==
    LET idx == {i \in 1..Len(resp.content) : resp.content[i].type = "tool_use"}
        nth[k \in 1..Cardinality(idx)] ==
            CHOOSE i \in idx : Cardinality({j \in idx : j < i}) = k - 1
    IN [k \in 1..Cardinality(idx) |-> resp.content[nth[k]]]

\* a tool round has just been completed: the results message is the last one
RoundComplete ==
    /\ pc \in {"top", "call"}
    /\ respLog /= <<>>
    /\ Last(respLog).stop = "tool_use"

\* C6: the user message appended after the dispatches of a tool_use response
\* with n invocations holds exactly n tool_result blocks, the i-th carrying
\* the id of the i-th tool_use block and the content and error flag of the
\* result of dispatching that invocation.
C6_ResultsMatchRequests ==
    RoundComplete =>
        LET uses == IssuedToolUses(Last(respLog))
            msg == Last(messages)
        IN /\ msg.role = "user"
           /\ Len(msg.content.blocks) = Len(uses)
           /\ Len(results) = Len(uses)
           /\ \A i \in 1..Len(uses) :
                 /\ results[i].name = uses[i].name
                 /\ msg.content.blocks[i] =
                      [type |-> "tool_result", toolUseID |-> uses[i].id,
                       content |-> results[i].result.content,
                       isError |-> results[i].result.isError]

\* a round of two invocations with different outcomes was completed
C6_Witness ==
    /\ RoundComplete
    /\ Len(results) = 2
    /\ results[1].result.isError /= results[2].result.isError
    /\ Len(Last(messages).content.blocks) = 2

\* C7: the invocations of a turn are dispatched one at a time in the order
\* issued: at most one dispatch is in flight, it is the one after the last
\* returned one, and no model call starts before every dispatch returned.
C7_SequentialDispatch ==
    /\ started \in {returned, returned + 1}
    /\ started <= Len(toolUses)
    /\ Len(results) = returned
    /\ \A i \in 1..Len(results) : results[i].name = toolUses[i].name
    /\ pc \in {"top", "call"} => started = Len(toolUses) /\ returned = started
    /\ (pc = "running") = (started = returned + 1)

\* the second invocation of a turn is running after the first returned
C7_Witness ==
    /\ pc = "running"
    /\ started = 2
    /\ returned = 1

\* C8: a failing tool or an unknown tool name never aborts the loop: the
\* result has is_error set, it is appended as tool_result block for the
\* matching id, the loop goes on to the next model call or to exhaustion,
\* an error is returned only for a provider error or a cancellation, and
\* no registered tool is executed for an unknown name.
C8_ToolFailureNotFatal ==
    /\ \A i \in 1..Len(results) :
          results[i].name \notin RegisteredTools
              => results[i].result.isError /\ ~results[i].result.ran
    /\ \A i \in 1..Len(execLog) : execLog[i] \in RegisteredTools
    /\ Len(execLog) <= Cardinality({k \in 1..Len(respLog) :
                                      respLog[k].stop = "tool_use"})
    /\ (returned = Len(toolUses) /\ returned > 0
          /\ \E i \in 1..Len(results) : results[i].result.isError)
         => /\ pc \in {"top", "call", "done"}
            /\ RoundComplete =>
                 \A i \in 1..Len(results) :
                    /\ Last(messages).content.blocks[i].toolUseID = toolUses[i].id
                    /\ Last(messages).content.blocks[i].isError
                         = results[i].result.isError
    /\ ret.err /= "nil" =>
          \/ ret.exit = "error" /\ Last(respLog) = ErrResp
          \/ ret.exit = "cancelled" /\ cancelled

\* after a round in which a registered tool failed and an unknown tool was
\* requested, the next model call is in flight
C8_Witness ==
    /\ pc = "call"
    /\ RoundComplete
    /\ \E i \in 1..Len(results) :
          results[i].name \in RegisteredTools /\ results[i].result.isError
    /\ \E i \in 1..Len(results) : results[i].name \notin RegisteredTools

\* the visible text of a response
VisibleText(resp) == StripThinking(extractText(resp))

\* the first model call returned end_turn/stop with empty visible text
FirstReplyEmpty ==
    /\ respLog /= <<>>
    /\ respLog[1].stop \in {"end_turn", "stop"}
    /\ VisibleText(respLog[1]) = <<>>

NudgeMsg == Msg("user", TextContent(NudgeText))

NudgeCount(msgs) == Cardinality({i \in 1..Len(msgs) : msgs[i] = NudgeMsg})

\* C9 as stated, for every maxIterations >= 1: after an empty first end_turn
\* reply the model is called again (unless the turn is cancelled).
C9_Original ==
    (pc = "done" /\ FirstReplyEmpty /\ ~cancelled) => Len(submitted) >= 2

\* C9 amended, for every maxIterations >= 2: after an empty first end_turn
\* reply the assistant turn and one nudge are appended and the model is
\* called again; a non-empty second end_turn reply is the return value and
\* exactly one nudge was appended.
C9_EmptyReplyRetry ==
    (maxIterations >= 2 /\ FirstReplyEmpty) =>
        /\ (pc = "done" /\ ~cancelled) => Len(submitted) >= 2
        /\ Len(submitted) >= 2 =>
              submitted[2] = submitted[1]
                  \o <<Msg("assistant", responseToContent(respLog[1])), NudgeMsg>>
        /\ (Len(respLog) >= 2 /\ respLog[2].stop \in {"end_turn", "stop"}
              /\ VisibleText(respLog[2]) /= <<>>)
             => /\ pc = "done"
                /\ ret.text = VisibleText(respLog[2])
                /\ ret.err = "nil"
                /\ NudgeCount(messages) = 1
                /\ Len(submitted) = 2

\* the retry happened: empty first reply, non-empty second reply returned
C9_Witness ==
    /\ FirstReplyEmpty
    /\ Len(respLog) = 2
    /\ respLog[2].stop = "end_turn"
    /\ VisibleText(respLog[2]) /= <<>>
    /\ pc = "done"

\* C10: a max_tokens response ends the turn in the same iteration: the
\* assistant turn is appended, the session saved, no further model call is
\* made and no nudge appended; the return value is the visible text or, when
\* that is empty, the truncation notice, and is never empty.
C10_MaxTokensTerminal ==
    (respLog /= <<>> /\ Last(respLog).stop = "max_tokens") =>
        LET resp == Last(respLog)
            sent == Last(submitted)
            final == Append(sent, Msg("assistant", responseToContent(resp)))
        IN /\ pc = "done"
           /\ Len(submitted) = Len(respLog)
           /\ messages = final
           /\ saveCount = 1
           /\ session = SaveSession(final, clock)
           /\ ret.err = "nil"
           /\ ret.text /= <<>>
           /\ ret.text = IF VisibleText(resp) = <<>> THEN TruncatedText
                          ELSE VisibleText(resp)

\* a max_tokens response without visible text ended the turn with the notice
C10_Witness ==
    /\ pc = "done"
    /\ respLog /= <<>>
    /\ Last(respLog).stop = "max_tokens"
    /\ VisibleText(Last(respLog)) = <<>>
    /\ ret.text = TruncatedText
    /\ ~emptyVisibleRetried

\* the fields of a branch outcome that the caller, the store and the model
\* provider can observe
SameHandling(a, b) ==
    /\ a.messages = b.messages
    /\ a.session = b.session
    /\ a.saved = b.saved
    /\ a.retried = b.retried
    /\ a.next = b.next
    /\ a.text = b.text
    /\ a.err = b.err

\* C11: whatever the response content, a response with an unrecognised stop
\* reason is handled exactly like the same response with stop reason
\* end_turn: same further model calls, same appended messages, same persisted
\* session and same return value.
C11_UnknownLikeEndTurn ==
    pc = "call" =>
        \A c \in Contents :
            SameHandling(
                SwitchStopReason([stop |-> "length", content |-> c], messages,
                                 emptyVisibleRetried, session, clock),
                SwitchStopReason([stop |-> "end_turn", content |-> c], messages,
                                 emptyVisibleRetried, session, clock))

\* the turn ended on an accepted end_turn/stop reply and every earlier
\* response of the turn asked for tools
EndedAfterToolRounds ==
    /\ pc = "done"
    /\ ret.exit = "end_turn"
    /\ respLog /= <<>>
    /\ \A i \in 1..(Len(respLog) - 1) : respLog[i].stop = "tool_use"

\* the ids of the blocks of one type in a message, in order
BlockIds(msg, type) ==
    IF ~msg.content.isBlocks THEN <<>>
    ELSE LET bs == msg.content.blocks
             idx == {i \in 1..Len(bs) : bs[i].type = type}
             nth[k \in 1..Cardinality(idx)] ==
                 CHOOSE i \in idx : Cardinality({j \in idx : j < i}) = k - 1
         IN [k \in 1..Cardinality(idx) |->
                IF type = "tool_use" THEN bs[nth[k]].id ELSE bs[nth[k]].toolUseID]

\* stored is base, then one (assistant tool_use, user tool_result) pair per
\* tool round, then the final assistant message
TurnShape(stored, base) ==
    LET r == Len(respLog) - 1
        n == Len(base)
    IN /\ Len(stored) = n + 2 * r + 1
       /\ SubSeq(stored, 1, n) = base
       /\ \A k \in 1..r :
             LET ids == [i \in 1..Len(IssuedToolUses(respLog[k])) |->
                            IssuedToolUses(respLog[k])[i].id]
                 a == stored[n + 2 * k - 1]
                 u == stored[n + 2 * k]
             IN /\ a.role = "assistant"
                /\ BlockIds(a, "tool_use") = ids
                /\ u.role = "user"
                /\ BlockIds(u, "tool_result") = ids
                /\ Len(u.content.blocks) = Len(ids)
       /\ stored[n + 2 * r + 1] = Msg("assistant", responseToContent(Last(respLog)))

\* C12 as stated: after a turn that ends with a non-empty end_turn reply
\* following r >= 0 tool rounds, the returned text is the reply's visible
\* text and the persisted session is exactly the list sent to the first
\* model call, then r pairs, then the final assistant message.
C12_Original ==
    EndedAfterToolRounds =>
        /\ ret.text = VisibleText(Last(respLog))
        /\ ret.text /= <<>>
        /\ session.found
        /\ TurnShape(session.messages, submitted[1])

\* C12, amended: the same with the image blocks stripped from the list sent
\* to the first model call.
C12_TurnPersisted ==
    EndedAfterToolRounds =>
        /\ ret.text = VisibleText(Last(respLog))
        /\ ret.text /= <<>>
        /\ session.found
        /\ TurnShape(session.messages, StripImagesForSession(submitted[1]))
        /\ (Len(submitted[1]) = 1 /\ Len(respLog) = 1
               => Len(session.messages) = 2)
        /\ (Len(submitted[1]) = 1 /\ Len(respLog) = 2
               => Len(session.messages) = 4)

\* a turn with an image, one tool round of two invocations and a reply ended
C12_Witness ==
    /\ EndedAfterToolRounds
    /\ Len(respLog) = 2
    /\ Len(IssuedToolUses(respLog[1])) = 2
    /\ req.hasImage
    /\ Len(session.messages) = Len(submitted[1]) + 3

\* C13: SanitizeMessages is idempotent: sanitizing a sanitized list gives
\* the same list.
C13_SanitizeIdempotent ==
    fnPc = "resanitized" => fnOut[2] = fnOut[1]

\* the tool_result blocks of msg that match no tool_use block of ids
OrphanBlocks(msg, ids) ==
    IF ~msg.content.isBlocks THEN {}
    ELSE {j \in 1..Len(msg.content.blocks) :
             /\ msg.content.blocks[j].type = "tool_result"
             /\ msg.content.blocks[j].toolUseID \notin ids}

\* msg is a block message and every block of it is an orphan
OnlyOrphans(msg, ids) ==
    /\ msg.content.isBlocks
    /\ OrphanBlocks(msg, ids) = 1..Len(msg.content.blocks)

C15_CompactNoOp ==
    Len(fnIn.messages) <= fnIn.keepRecent =>
        /\ fnPc /= "summarizing"
        /\ fnPc = "compacted" =>
              /\ fnOut.result.messages = fnIn.messages
              /\ fnOut.result.err = "nil"
              /\ ~fnOut.result.called

\* a list of exactly keepRecent messages was returned
C15_Witness ==
    /\ fnPc = "compacted"
    /\ Len(fnIn.messages) = fnIn.keepRecent
    /\ fnOut.result.messages = fnIn.messages

\* result is the summary message, the acknowledgment and the last
\* keepRecent messages of the input
CompactedShape(result, summary) ==
    LET n == Len(fnIn.messages)
        k == fnIn.keepRecent
    IN /\ Len(result) = k + 2
       /\ result[1] = Msg("user", TextContent(<<SummaryPrefix>> \o summary
                                              \o <<SummarySuffix>>))
       /\ result[2] = Msg("assistant", TextContent(CompactAck))
       /\ \A i \in 1..k : result[2 + i] = fnIn.messages[n - k + i]

\* C16 as stated: for every list longer than keepRecent, what CompactMessages
\* returns (without an error) has exactly keepRecent + 2 messages: the
\* summary, the acknowledgment and the last keepRecent input messages.
C16_Original ==
    (/\ fnPc = "compacted"
     /\ Len(fnIn.messages) > fnIn.keepRecent
     /\ fnOut.result.err = "nil") =>
        /\ Len(fnOut.result.messages) = fnIn.keepRecent + 2
        /\ fnOut.result.messages[1].role = "user"
        /\ fnOut.result.messages[2].role = "assistant"
        /\ SubSeq(fnOut.result.messages, 3, fnIn.keepRecent + 2)
             = SubSeq(fnIn.messages, Len(fnIn.messages) - fnIn.keepRecent + 1,
                      Len(fnIn.messages))

\* C16, amended: that shape is returned when the summarizer returns a
\* non-empty summary; when it fails or returns no text the input list is
\* returned as it is.
C16_CompactShape ==
    (fnPc = "compacted" /\ Len(fnIn.messages) > fnIn.keepRecent) =>
        /\ fnOut.result.called
        /\ IF ~fnOut.failed /\ fnOut.summary /= <<>>
           THEN /\ CompactedShape(fnOut.result.messages, fnOut.summary)
                /\ fnOut.result.err = "nil"
           ELSE /\ fnOut.result.messages = fnIn.messages
                /\ (fnOut.result.err = "nil") = ~fnOut.failed

\* three messages were compacted to the summary pair and the last one
C16_Witness ==
    /\ fnPc = "compacted"
    /\ Len(fnIn.messages) = 3
    /\ fnIn.keepRecent = 1
    /\ fnOut.summary /= <<>>
    /\ Len(fnOut.result.messages) = 3
    /\ fnOut.result.messages[3] = fnIn.messages[3]

\* C17: when the summarizer call of compaction fails the turn goes on with
\* the uncompacted list: every later model call is given it (extended by
\* the turn), and unless the turn is cancelled the loop makes its first call.
C17_CompactionFailureNotFatal ==
    compactOutcome = "failed" =>
        /\ pc \in {"top", "call", "dispatch", "running", "done"}
        /\ preCompact /= <<>>
        /\ initialMessages = preCompact
        /\ \A k \in 1..Len(submitted) :
              SubSeq(submitted[k], 1, Len(preCompact)) = preCompact
        /\ submitted /= <<>> => submitted[1] = preCompact
        /\ (pc = "done" /\ ~cancelled) => submitted /= <<>>

\* after a failed compaction the turn ended with an accepted reply
C17_Witness ==
    /\ compactOutcome = "failed"
    /\ ~cancelled
    /\ pc = "done"
    /\ ret.exit = "end_turn"
    /\ Len(submitted[1]) > MaxSessionMessages

RECURSIVE SumEstimates(_)
\* the estimated tokens of a list of memories
SumEstimates(mems) ==
    IF mems = <<>> THEN 0
    ELSE (Len(mems[1].content) \div 4) + SumEstimates(Tail(mems))

\* C18: for a budget > 0 the estimates len(content)/4 of the selected facts
\* sum to at most the budget, unless the selection is the first-ranked
\* candidate alone.
C18_BudgetRespected ==
    (fnPc = "built" /\ fnIn.tokenBudget > 0) =>
        LET selected == fnOut.built.selected
        IN \/ SumEstimates(selected) <= fnIn.tokenBudget
           \/ /\ Len(selected) = 1
              /\ selected[1] = fnOut.built.ranked[1].mem

\* two facts that fill the budget exactly were selected and one was omitted
C18_Witness ==
    /\ fnPc = "built"
    /\ Len(fnOut.built.selected) = 2
    /\ SumEstimates(fnOut.built.selected) = fnIn.tokenBudget
    /\ fnIn.tokenBudget > 0
    /\ fnOut.built.log[1].omitted = 1

\* the score of the i-th fetched candidate
FetchedScore(i) == Score(fnOut.fetched[i], Fields(ToLower(fnIn.query)))

\* the fetched candidates that no other candidate outscores
TopCandidates ==
    {i \in 1..Len(fnOut.fetched) :
        \A j \in 1..Len(fnOut.fetched) : FetchedScore(j) <= FetchedScore(i)}

\* C19: with a budget > 0 and at least one candidate the output is not
\* empty and shows a highest-scored candidate, whatever its estimate; with
\* no candidate or a budget <= 0 the output is empty.
C19_TopCandidateShown ==
    fnPc = "built" =>
        IF fnIn.tokenBudget > 0 /\ fnOut.fetched /= <<>>
        THEN /\ fnOut.built.text /= <<>>
             /\ \E i \in TopCandidates :
                   /\ \E k \in 1..Len(fnOut.built.selected) :
                         fnOut.built.selected[k] = fnOut.fetched[i]
                   /\ Contains(fnOut.built.text,
                               <<"] ">> \o fnOut.fetched[i].content \o <<NL>>)
        ELSE fnOut.built.text = <<>>

\* the highest-scored candidate alone exceeds the budget and is the output,
\* the other candidates are omitted
C19_Witness ==
    /\ fnPc = "built"
    /\ fnIn.tokenBudget > 0
    /\ Len(fnOut.fetched) >= 2
    /\ Len(fnOut.built.selected) = 1
    /\ Len(fnOut.built.selected[1].content) \div 4 > fnIn.tokenBudget
    /\ fnOut.built.text /= <<>>

\* the position of the memory with this id in a list of memories
PosOf(mems, id) == CHOOSE k \in 1..Len(mems) : mems[k].id = id

\* C20: the candidates are ranked by descending score and two candidates of
\* equal score keep the relative order of the fetched list, in the ranking
\* and, when both are selected, in the output.
C20_StableDescending ==
    (fnPc = "built" /\ fnOut.built.ranked /= <<>>) =>
        LET ranked == [k \in 1..Len(fnOut.built.ranked) |-> fnOut.built.ranked[k].mem]
            selected == fnOut.built.selected
            ids(mems) == {mems[k].id : k \in 1..Len(mems)}
        IN /\ \A k \in 1..(Len(ranked) - 1) :
                 fnOut.built.ranked[k].score >= fnOut.built.ranked[k + 1].score
           /\ \A i, j \in 1..Len(fnOut.fetched) :
                 (i < j /\ FetchedScore(i) = FetchedScore(j)) =>
                    /\ PosOf(ranked, fnOut.fetched[i].id)
                         < PosOf(ranked, fnOut.fetched[j].id)
                    /\ {fnOut.fetched[i].id, fnOut.fetched[j].id} \subseteq ids(selected)
                         => PosOf(selected, fnOut.fetched[i].id)
                              < PosOf(selected, fnOut.fetched[j].id)

\* C21: every call of BuildDBMemoryContext, whatever the budget and the
\* number of candidates, records one entry {candidates, selected, omitted,
\* tokens_used} through LogMemoryInjection.
C21_EveryCallLogged ==
    fnPc = "built" =>
        /\ Len(fnOut.built.log) = 1
        /\ fnOut.built.log[1].candidates = Len(fnOut.fetched)
        /\ fnOut.built.log[1].selected = Len(fnOut.built.selected)
        /\ fnOut.built.log[1].omitted
             = Len(fnOut.fetched) - Len(fnOut.built.selected)
        /\ fnOut.built.log[1].tokensEst = SumEstimates(fnOut.built.selected)

\* C22: IsControlChat() is true exactly when CallerChatID is an element of
\* ControlChatIDs, and CanAccessChat(target) exactly when IsControlChat() is
\* true or target equals CallerChatID.
C22_AuthPredicates ==
    fnPc = "access_asked" =>
        LET a == fnIn.auth
            member == \E i \in 1..Len(a.ControlChatIDs) :
                         a.ControlChatIDs[i] = a.CallerChatID
        IN /\ fnOut.isControlChat = member
           /\ fnOut.canAccessChat = (member \/ fnIn.target = a.CallerChatID)

\* a caller listed second among the control chats may access another chat
C22_Witness ==
    /\ fnPc = "access_asked"
    /\ Len(fnIn.auth.ControlChatIDs) = 2
    /\ fnIn.auth.ControlChatIDs[1] /= fnIn.auth.CallerChatID
    /\ fnIn.auth.ControlChatIDs[2] = fnIn.auth.CallerChatID
    /\ fnIn.target /= fnIn.auth.CallerChatID
    /\ fnOut.canAccessChat


\* the events of one type the sink has received
EventsOfType(type) == SelectSeq(events, LAMBDA ev : ev.type = type)

ImageFree(list) ==
    \A i \in 1..Len(list) :
       list[i].content.isBlocks =>
          \A k \in 1..Len(list[i].content.blocks) :
             list[i].content.blocks[k].type /= "image"

\* the blocks of a message that are not images, in their order
KeptBlocks(msg) ==
    SelectSeq(msg.content.blocks, LAMBDA b : b.type /= "image")

\* C24: The stored session never contains an image block.  When the loop
\* has saved the session, the stored list has one message per message of
\* the in-memory list: a text message is stored as it is, and a block
\* message is stored with its non-image blocks in their original order.
C24_NoImagePersisted ==
    /\ session.found => ImageFree(session.messages)
    /\ saveCount > 0 =>
          /\ Len(session.messages) = Len(messages)
          /\ \A i \in 1..Len(messages) :
                /\ session.messages[i].role = messages[i].role
                /\ IF ~messages[i].content.isBlocks
                   THEN session.messages[i] = messages[i]
                   ELSE KeptBlocks(messages[i]) /= <<>>
                           => /\ session.messages[i].content.isBlocks
                              /\ session.messages[i].content.blocks
                                    = KeptBlocks(messages[i])

\* a turn whose latest user message carried an image was saved: the list in
\* memory still holds the image, the stored one holds the text beside it
C24_Witness ==
    /\ req.hasImage
    /\ saveCount > 0
    /\ ~ImageFree(messages)
    /\ \E i \in 1..Len(messages) :
          /\ messages[i].content.isBlocks
          /\ Len(KeptBlocks(messages[i])) < Len(messages[i].content.blocks)
          /\ session.messages[i].content.blocks = KeptBlocks(messages[i])


\* C25: When the turn ends with a model call's error, errors.Is finds
\* ErrRateLimited on the returned error exactly when the call failed with
\* the rate-limited condition (status 429); for every other failure of the
\* provider the returned error is not the sentinel.
C25_RateLimitRecognisable ==
    (pc = "done" /\ ret.err = "llm") =>
        /\ llmError.failure \in ProviderFailures
        /\ ErrorsIs(llmError.err, ErrRateLimited)
              <=> llmError.failure = "status_429"

\* a rate-limited model call ended the turn: the returned error wraps the
\* sentinel
C25_Witness ==
    /\ pc = "done"
    /\ ret.err = "llm"
    /\ llmError.failure = "status_429"
    /\ Len(llmError.err) > 1
    /\ ErrorsIs(llmError.err, ErrRateLimited)


\* C27: Every result a dispatch through the registry returned carries a
\* measured duration, whether the tool succeeded, failed or is unknown.
C27_DurationAlwaysAttached ==
    \A i \in 1..Len(results) : results[i].result.hasDuration


\* an end_turn or stop reply without visible text
EmptyEndTurn(resp) ==
    /\ resp.stop \in {"end_turn", "stop"}
    /\ VisibleText(resp) = <<>>

\* the model calls of the turn that returned such a reply
EmptyEndTurns == {k \in 1..Len(respLog) : EmptyEndTurn(respLog[k])}

\* the nudge messages the turn has appended
NudgesAppended == NudgeCount(messages) - NudgeCount(initialMessages)

\* C29: A turn appends at most one nudge message.  The first end_turn reply
\* with empty visible text appends the assistant turn and the nudge and sets
\* the retry flag; a later one ends the turn: the assistant turn is appended,
\* the session is saved once and the empty text is returned.
C29_AtMostOneNudge ==
    respLog /= <<>> =>
        /\ NudgesAppended = IF EmptyEndTurns /= {} THEN 1 ELSE 0
        /\ emptyVisibleRetried <=> EmptyEndTurns /= {}
        /\ \A k \in EmptyEndTurns :
              ((\A j \in EmptyEndTurns : k <= j) /\ Len(submitted) > k) =>
                      submitted[k + 1] =
                         submitted[k] \o
                            <<Msg("assistant", responseToContent(respLog[k])),
                              NudgeMsg>>
        /\ Cardinality(EmptyEndTurns) <= 2
        /\ Cardinality(EmptyEndTurns) = 2 =>
              /\ EmptyEndTurn(Last(respLog))
              /\ pc = "done"
              /\ ret = [text |-> <<>>, err |-> "nil", exit |-> "end_turn"]
              /\ saveCount = 1
              /\ Last(messages) = Msg("assistant", responseToContent(Last(respLog)))
              /\ session.messages = StripImagesForSession(messages)

\* two end_turn replies without visible text in one turn: one nudge, and the
\* second reply ended the turn
C29_Witness ==
    /\ Cardinality(EmptyEndTurns) = 2
    /\ NudgesAppended = 1
    /\ pc = "done"
    /\ ret.text = <<>>
    /\ saveCount = 1


\* the blocks held by the block messages of a list
BlocksIn(list) ==
    UNION { {list[i].content.blocks[k] : k \in 1..Len(list[i].content.blocks)} :
            i \in {j \in 1..Len(list) : list[j].content.isBlocks} }

\* C30: Merging adjacent same-role messages drops the block form only of
\* messages that consist solely of text: every tool_use block of the input,
\* and every tool_result block of the input whose tool_use exists, is still
\* a block of the output of SanitizeMessages.
C30_MergeKeepsToolBlocks ==
    fnPc /= "sanitize" =>
        \A b \in BlocksIn(fnIn) :
           (\/ b.type = "tool_use"
            \/ b.type = "tool_result" /\ b.toolUseID \in toolUseIDs(fnIn))
              => b \in BlocksIn(fnOut[1])


\* C26: At no time do the Telegram adapter, the web send-stream handler and
\* the scheduler together have more than one invocation of the loop in
\* progress for the same chat.
C26_OneInvocationPerChat ==
    fnPc = "callers" =>
        \A c \in CallerChats : InProgress(fnOut, c) <= 1


\* C28: A normal turn that finds a persisted session appends exactly the
\* user messages stored since the session was last saved, in arrival order,
\* and appends none that an earlier turn had appended.
C28_NewMessagesAppendedOnce ==
    (fnPc \in {"between", "in_turn"} /\ fnOut.last.normal) =>
        /\ fnOut.last.appended = fnOut.last.expected
        /\ ~fnOut.last.repeated


\* the ids of the tool_use blocks of the assistant messages before position i
EarlierToolUseIDs(list, i) ==
    UNION { {list[j].content.blocks[k].id :
                k \in {n \in 1..Len(list[j].content.blocks) :
                          list[j].content.blocks[n].type = "tool_use"}} :
            j \in {m \in 1..(i - 1) : /\ list[m].role = "assistant"
                                      /\ list[m].content.isBlocks} }

\* C31: In the output of SanitizeMessages every tool_result block of a user
\* message references a tool_use id of an assistant message at an earlier
\* position of the list.
C31_ResultAfterItsToolUse ==
    fnPc /= "sanitize" =>
        \A i \in 1..Len(fnOut[1]) :
           (fnOut[1][i].role = "user" /\ fnOut[1][i].content.isBlocks) =>
              \A k \in 1..Len(fnOut[1][i].content.blocks) :
                 fnOut[1][i].content.blocks[k].type = "tool_result"
                    => fnOut[1][i].content.blocks[k].toolUseID
                          \in EarlierToolUseIDs(fnOut[1], i)


\* the writers inside the body of withLock
InBody == {w \in Writers : fnOut.at[w] \in {"locked", "executed"}}

\* C32: At most one write executes inside the lock at a time, and it is the
\* holder of the mutex; the sessions row is always the previous list or a
\* list some writer saved, and so is every list a reader has loaded.
C32_SerializedWrites ==
    fnPc = "store" =>
        /\ Cardinality(InBody) <= 1
        /\ \A w \in InBody : fnOut.mu = w
        /\ InBody = {} => fnOut.mu = 0
        /\ fnOut.row \in {PreviousList} \cup SavedLists
        /\ fnOut.seen \subseteq {PreviousList} \cup SavedLists

\* one writer waits for the mutex while the other is inside the lock, and
\* readers have loaded the previous list and a saved one
C32_Witness ==
    /\ fnPc = "store"
    /\ \E w \in Writers, v \in Writers :
          /\ fnOut.at[w] = "waiting"
          /\ fnOut.at[v] = "executed"
          /\ fnOut.kind[v] = "SaveSession"
          /\ fnOut.kind[w] = "SaveSession"
    /\ PreviousList \in fnOut.seen
    /\ Cardinality(fnOut.seen) >= 2


\* C33: In a streamed web turn the stream is closed only after
\* ProcessWithEvents has returned, nothing is sent on it after the close,
\* the done marker is written only when the stream is closed and every event
\* was consumed, and on every exit path the handler eventually writes the
\* done marker.
C33_StreamAlwaysClosed ==
    /\ [](stream.closed => pc = "done")
    /\ [](stream.done => stream.closed /\ stream.consumed = Len(events))
    /\ [][stream.closed => events' = events]_vars
    /\ <>stream.done

\* a turn whose model call failed: the stream, which had received the
\* iteration event, was closed and drained and the done marker written
C33_Witness ==
    /\ stream.done
    /\ ret.err = "llm"
    /\ events /= <<>>
    /\ stream.consumed = Len(events)

\* C40: With a sink, an invocation that returned a text with a nil error has
\* sent exactly one final_response event, carrying the returned text, as
\* its last event; one that returned an error has sent none.
C40_OneFinalResponse ==
    (eventCh /\ pc = "done") =>
        IF ret.err = "nil"
        THEN /\ EventsOfType("final_response") = <<FinalResponseEvent(ret.text)>>
             /\ events[Len(events)] = FinalResponseEvent(ret.text)
        ELSE EventsOfType("final_response") = <<>>


\* C34: Whatever input the model supplied, the injection returns an input
\* from which the tool extracts exactly the auth context the loop built.
C34_AuthContextFromLoop ==
    /\ fnPc = "injected" => ~fnOut[1].panic
    /\ fnPc = "extracted" => fnOut[2] = AuthPtr(fnIn.auth)


RECURSIVE SlotsHeld(_, _)
\* the slots of session k held by the handlers r..MaxWebRequests
SlotsHeld(k, r) ==
    IF r > MaxWebRequests THEN 0
    ELSE (IF fnOut.key[r] = k THEN fnOut.holds[r] ELSE 0) + SlotsHeld(k, r + 1)

\* C35: For every session key the inflight counter is within
\* 0..WebMaxInflightPerSession and equals the slots its handlers hold: a
\* handler between admission and its release holds exactly one, a handler
\* that has returned on any path (refused, rate limited, chat resolve error,
\* streaming unsupported, agent reply, agent error) holds none, so the
\* counter is 0 when no request of the session is in progress.
C35_InflightCounter ==
    /\ \A k \in SessionKeys :
          /\ fnOut.inflight[k] \in 0..WebMaxInflightPerSession
          /\ fnOut.inflight[k] = SlotsHeld(k, 1)
          /\ (\A r \in WebRequests : fnOut.key[r] = k => fnOut.at[r] = "idle")
                => fnOut.inflight[k] = 0
    /\ \A r \in WebRequests :
          /\ fnOut.at[r] \in {"idle", "inflight_check"} => fnOut.holds[r] = 0
          /\ fnOut.at[r] \in {"window_check", "admitted", "agent"} => fnOut.holds[r] = 1

\* a request has been refused by the rate window, the window is still full,
\* and every handler has returned
C35_Witness ==
    /\ fnOut.limited
    /\ \A r \in WebRequests : fnOut.at[r] = "idle"
    /\ fnOut.requests["main"] = WebMaxRequestsPerWindow


\* C36: A one-shot task is started by the scheduler at most once, however
\* long its turn takes and also when its chat type cannot be resolved.
C36_OnceTaskStartedOnce ==
    \A t \in Tasks : fnIn.type[t] = "once" => fnOut.starts[t] <= 1


ResolveReturned == {c \in Resolvers : fnOut.at[c] = "returned"}

\* C37: Every ResolveOrCreateChatID call that has returned succeeded; calls
\* with the same pair returned the same chat id, calls with different pairs
\* different ids, and the chats table holds exactly one row for the pair of
\* every returned call.
C37_OneChatPerPair ==
    /\ \A c \in ResolveReturned : fnOut.err[c] = "nil"
    /\ \A c, d \in ResolveReturned :
          (fnOut.pair[c] = fnOut.pair[d]) <=> (fnOut.chatID[c] = fnOut.chatID[d])
    /\ \A c \in ResolveReturned :
          Cardinality({row \in fnOut.chats : row.pair = fnOut.pair[c]}) = 1


\* no tool_result block of a user message without its tool_use in an
\* assistant message before it
NoOrphanResult(list) ==
    \A i \in 1..Len(list) :
       (list[i].role = "user" /\ list[i].content.isBlocks) =>
          \A k \in 1..Len(list[i].content.blocks) :
             list[i].content.blocks[k].type = "tool_result"
                => list[i].content.blocks[k].toolUseID \in EarlierToolUseIDs(list, i)

\* C38: A successful compaction of a list without orphan tool_result yields
\* a list without orphan tool_result, for every keepRecent.
C38_CutKeepsToolPairs ==
    (/\ fnPc = "compacted"
     /\ fnOut.result.called
     /\ fnOut.result.err = "nil"
     /\ fnOut.summary /= <<>>
     /\ NoOrphanResult(fnIn.messages))
        => NoOrphanResult(fnOut.result.messages)


\* C39: When a terminal branch or iteration exhaustion has returned a nil
\* error, the stored session is the turn's final message list with images
\* stripped; a failed session write is returned as an error.
C39_SaveFailureReported ==
    fnPc /= "terminal" =>
        /\ fnOut.ret.err = "nil" =>
              /\ fnOut.session.found
              /\ fnOut.session.messages = StripImagesForSession(fnIn.messages)
        /\ fnOut.saveErr /= "nil" => fnOut.ret.err /= "nil"

====
